---- MODULE Spec2Model ----
(***************************************************************************)
(* x-keeper: the Fetch Orchestrator (src/src/image_downloader.py), the     *)
(* Dedup Ledger (src/src/log_store.py) and the Thread Resolver             *)
(* (src/src/twitter_client.py) and the Discord bot with its Retry/Scan     *)
(* Scheduler (src/src/discord_bot.py) as state machines.                   *)
(*                                                                         *)
(* A URL is a pair <<kind, n>>:                                            *)
(*   <<"user", n>>   https://x.com/<name>/status/<n>                       *)
(*   <<"i", n>>      https://x.com/i/status/<n>                            *)
(*   <<"media", n>>  https://x.com/<name>/media  (holds no /status/<id>)   *)
(*   <<"pixiv", n>>  https://www.pixiv.net/artworks/<n>                    *)
(* A file of the destination directory is a pair <<tweet_id, num>>, the    *)
(* two fields of _TWITTER_FILENAME_TEMPLATE that tell files apart.         *)
(***************************************************************************)
EXTENDS Integers, Sequences, FiniteSets, TLC

None == "None"

\* _tweet_id_from_url returns None, which is falsy like its stand-in here
NoId == 0

\* ---------------------------------------------------------------- bounds
\* longest URL list handed to download_all when it runs alone
MaxUrls == 3
\* longest URL list of each of two concurrent download_all calls
ConcUrls == 1
\* number of download_all calls made in sequence against the stub capability
StubCalls == 2

\* tweet ids of the reply graphs gallery-dl may answer with anything about
NumPosts == 3
\* length of the long fixed parent chain (longer than _MAX_THREAD_DEPTH); the
\* short fixed chains have 1..NumPosts + 1 tweets
ChainLen == 55

\* longest tweet_ids list handed to mark_downloaded
MaxIdList == 2
\* number of batches a client takes from its queue in one run
MaxGets == 1

\* longest URL list handed to download_direct
MaxDirectUrls == 2
\* number of requests the web server answers in a run
MaxRequests == 1

\* most tweet URLs of a thread handed back to the bot
MaxThreadUrls == 1
\* number of /retry and /api/queue requests the web server answers in a run
MaxEnqueues == 2
\* number of periodic scans the scheduler starts in a run
MaxScans == 1

\* ------------------------------------------------------ program constants
_MAX_RETRIES == 3

\* subscribe: queue.Queue(maxsize=200)
QueueMaxsize == 200

_MAX_THREAD_DEPTH == 50

\* LogStore._MAX_LOG_ENTRIES
_MAX_LOG_ENTRIES == 500

\* the tweet ids of the fetch model
Ids == {1, 2}

\* The two concurrent paths that run download_all on the executor.
Callers == {"handler", "scheduler"}

FetchUrls == {<<"i", n>> : n \in Ids} \cup {<<"user", 1>>, <<"media", 1>>}

UrlLists(S, n) == UNION {[1..k -> S] : k \in 0..n}

\* gallery-dl exit codes: 0 success, 1 nothing found, 4 stands for every other code
ReturnCodes == {0, 1, 4}

Range(s) == {s[i] : i \in DOMAIN s}

\* ------------------------------------------------------- pure functions

\* _TWEET_ID_FROM_URL.search(url): the digits after /status/, or None
_tweet_id_from_url(url) == IF url[1] \in {"user", "i"} THEN url[2] ELSE NoId

\* the file gallery-dl names after tweet n
FileOf(n) == <<n, 1>>

\* what one run of gallery-dl on url may write into the directory
CapabilityWrites(url) ==
    IF _tweet_id_from_url(url) # NoId
    THEN {{}, {FileOf(_tweet_id_from_url(url))}}
    ELSE {{}} \cup {{FileOf(n)} : n \in Ids}

FileLess(a, b) == a[1] < b[1] \/ (a[1] = b[1] /\ a[2] < b[2])

RECURSIVE sorted(_)
sorted(S) ==
    IF S = {} THEN <<>>
    ELSE LET m == CHOOSE x \in S : \A y \in S \ {x} : FileLess(x, y)
         IN <<m>> \o sorted(S \ {m})

\* a download_all that prunes nothing
PendingNoPrune(tweet_urls, downloaded_ids) == tweet_urls

\* download_all, the pruning loop: the URLs whose tweet id is not in downloaded_ids
Pending(tweet_urls, downloaded_ids) ==
    SelectSeq(tweet_urls,
              LAMBDA u : ~(_tweet_id_from_url(u) # NoId
                           /\ _tweet_id_from_url(u) \in downloaded_ids))

\* a retry loop that takes exit code 1 for an error
IsTerminalRcOnlyZero(rc) == rc = 0

\* _download_one: "if result.returncode in (0, 1): break", and rc_ok
IsTerminalRc(rc) == rc \in {0, 1}

\* a diff that forgets the snapshot taken before the fetch
NewFilesAll(files_before, files_after) == sorted(files_after)

\* _download_one: new_files = sorted(files_after - files_before)
NewFiles(files_before, files_after) == sorted(files_after \ files_before)

\* a download_all without the "elif rc_ok" branch
MarksIdOnlyNewFiles(tid, new_files, rc_ok) == tid # NoId /\ new_files # <<>>

\* download_all: does the URL's tweet id get marked, and does it count as existed
MarksId(tid, new_files, rc_ok) == tid # NoId /\ (new_files # <<>> \/ rc_ok)

CountsExisted(tid, new_files, rc_ok) == tid # NoId /\ new_files = <<>> /\ rc_ok

\* a mark_downloaded that takes every id handed in for new
NewIdsUnfiltered(existing, tweet_ids) == tweet_ids

\* LogStore.mark_downloaded: new_ids, and the id set written back
NewIds(existing, tweet_ids) == SelectSeq(tweet_ids, LAMBDA t : t \notin existing)

\* a mark_downloaded that never writes the id file
MarkDownloadedLost(existing, tweet_ids) == existing

MarkDownloaded(existing, tweet_ids) == existing \cup Range(NewIds(existing, tweet_ids))

SavedFiles(url, new_files) ==
    [i \in 1..Len(new_files) |-> [source_url |-> url, saved_path |-> new_files[i]]]

\* ------------------------------------------------------------- state
VARIABLES
    ledger,        \* _downloaded_ids.json: the set of marked tweet ids
    dir,           \* the files of dest_dir
    capability,    \* "any": gallery-dl may do anything; "stub": the idempotence stub
    stub_seen,     \* the stub's memory: ids it already delivered
    da,            \* per caller, the frame of download_all / _download_one
    result,        \* per caller, <<the DownloadResult returned>>, or <<>>
    ncalls,        \* per caller, the number of download_all calls started
    ledger0,       \* per caller, the ledger when its current call started
    fetched,       \* per caller, what the capability did for each finished pending URL
    cur,           \* per caller, what the capability did so far for the current URL
    env,           \* what gallery-dl --dump-json answers: any answer, or a fixed chain
    th,            \* the frame of get_thread / _collect_thread_urls / _get_tweet_info
    meta,          \* per fetched tweet id, the (reply_id, author_name) it answered
    fetches,       \* the tweet ids _get_tweet_info was called for, in order
    ids_file,      \* LogStore: _downloaded_ids.json, a JSON list or a torn file
    lock,          \* LogStore._lock: "free" or the thread inside mark_downloaded
    subscribers,   \* LogStore._subscribers: the clients whose queue is registered
    queues,        \* per client, the batches waiting in its queue.Queue
    mk,            \* per thread, the frame of mark_downloaded / _notify_subscribers
    sse,           \* per client, the frame of api_history_stream's event_stream
    added,         \* per id, the number of mark_downloaded calls that added it
    ever,          \* every id a completed write (or the initial file) put in the file
    um,            \* the frame of download_user_media / _download_media_page
    dd,            \* the frame of download_direct
    web,           \* the web server: the last request it answered
    content,       \* per Discord message, the URLs of its text
    reactions,     \* per Discord message, the bot's reactions on it
    retry_queue,   \* LogStore: _retry_queue.json
    api_queue,     \* LogStore: _api_queue.json
    dlog,          \* LogStore: _download_log.json
    done_urls,     \* LogStore: the URLs handed to mark_downloaded_url
    sched,         \* the frame of _retry_queue_task / _process_api_queue / _download_url_direct
    pm,            \* per task, the frame of _process_message
    loop,          \* the event loop's thread: "free", or the task whose call occupies it
    enq            \* per message, the number of queue_retry calls that added it

fvars == <<ledger, dir, capability, stub_seen, da, result, ncalls, ledger0, fetched, cur>>

tvars == <<env, th, meta, fetches>>

lvars == <<ids_file, lock, subscribers, queues, mk, sse, added, ever>>

ovars == <<um, dd, web>>

bvars == <<content, reactions, retry_queue, api_queue, dlog, done_urls, sched, pm, loop, enq>>

vars == <<fvars, tvars, lvars, ovars, bvars>>

NoRun == [attempts |-> 0, last_rc |-> 0, timed_out |-> FALSE, wrote |-> {}]

\* the thread resolver before any call, with nothing asked of gallery-dl yet
IdleThread ==
    [pc |-> "idle", start_url |-> <<"i", 1>>, url |-> <<"i", 1>>, depth |-> 0,
     author_filter |-> None, visited |-> {}, tweet_urls |-> <<>>,
     conversation_id |-> NoId, returncode |-> 0, exc |-> None]

FreeEnv == [kind |-> "free", len |-> 0, stranger |-> 0]

InitThreadIdle ==
    /\ env = FreeEnv
    /\ th = IdleThread
    /\ meta = <<>>
    /\ fetches = <<>>

\* the threads that call mark_downloaded, once each: one of the executor (for
\* download_all or download_user_media) and one of the web server (the import)
Markers == {"m1", "m2"}

\* the ids handed to mark_downloaded in a run
MarkIds == {1, 2}

\* the clients of /api/history/stream
Clients == {"c1", "c2"}

IdleMark ==
    [pc |-> "idle", tweet_ids |-> <<>>, before |-> {}, existing |-> {}, new_ids |-> <<>>,
     subs |-> {}, todo |-> {}, dead |-> {}, ret |-> 0, exc |-> None, fault |-> FALSE]

IdleSse == [pc |-> "off", yielded |-> <<>>, snapped |-> FALSE, snapshot |-> <<>>]

\* a LogStore on an empty data directory, nobody connected
InitLogStoreIdle ==
    /\ ids_file = [valid |-> TRUE, data |-> <<>>]
    /\ lock = "free"
    /\ subscribers = {}
    /\ queues = [c \in Clients |-> <<>>]
    /\ mk = [t \in Markers |-> IdleMark]
    /\ sse = [c \in Clients |-> IdleSse]
    /\ added = [i \in MarkIds |-> 0]
    /\ ever = {}

\* the Discord messages of the watched channel, oldest first
Msgs == {1, 2}

\* one task per on_message event ("ev1" for message 1, "ev2" for message 2) and
\* the scheduler's task
Tasks == {"ev1", "ev2", "sched"}

\* what a call on the executor gave back
NoOut == [raised |-> FALSE, files |-> 0, thread |-> 0, skipped |-> 0, made |-> 0]

IdlePm ==
    [pc |-> "idle", msg |-> 0, urls |-> <<>>, idx |-> 1, fn |-> None, thread |-> 0,
     errors |-> <<>>, total_files |-> 0, all_duplicate_skipped_urls |-> 0,
     seen |-> <<>>]

IdleSched ==
    [pc |-> "sleep", scan_interval |-> 0, scans |-> 0, scan |-> <<>>, queued |-> <<>>,
     qidx |-> 1, urls |-> <<>>, uidx |-> 1, fn |-> None, thread |-> 0,
     handled |-> <<>>, runs |-> [m \in Msgs |-> 0], exc |-> None,
     taken |-> [retry |-> <<>>, api |-> <<>>]]

\* the bot before any event, with empty queues and an empty log; scan_interval
\* is 0 unless the operator sets it
InitBotState(intervals, texts, marksets) ==
    /\ \E text \in texts, interval \in intervals, marks \in marksets :
         /\ content = [m \in Msgs |-> IF m = 1 THEN text ELSE << <<"i", 2>> >>]
         /\ reactions = [m \in Msgs |-> IF m = 1 THEN marks ELSE {}]
         /\ sched = [IdleSched EXCEPT !.scan_interval = interval]
    /\ retry_queue = <<>>
    /\ api_queue = <<>>
    /\ dlog = <<>>
    /\ done_urls = {}
    /\ pm = [t \in Tasks |-> IdlePm]
    /\ loop = "free"
    /\ enq = [m \in Msgs |-> 0]

IdleUserMedia ==
    [pc |-> "idle", url |-> <<"media", 1>>, downloaded_ids |-> {}, filter |-> {},
     files_before |-> {}, returncode |-> 0, new_files |-> <<>>, new_tweet_ids |-> <<>>,
     saved |-> <<>>, exc |-> None]

IdleDirect ==
    [pc |-> "idle", urls |-> <<>>, idx |-> 1, files_before |-> {}, attempt |-> 1,
     last_returncode |-> 0, saved |-> <<>>, made |-> <<>>, exc |-> None]

IdleWeb ==
    [nreq |-> 0, op |-> None, status |-> 0, imported |-> 0,
     pc |-> "idle", key |-> None, local |-> <<>>, put |-> <<>>]

\* nothing asked of download_user_media, download_direct or the web server yet
InitOrchestratorIdle ==
    /\ um = IdleUserMedia
    /\ dd = IdleDirect
    /\ web = IdleWeb

IdleFrame ==
    [pc |-> "idle", tweet_urls |-> <<>>, downloaded_ids |-> {}, pending |-> <<>>,
     idx |-> 1, files_before |-> {}, attempt |-> 1, last_returncode |-> 0,
     saved |-> <<>>, skipped_count |-> 0, existed_count |-> 0, exc |-> None]

InitFetch(cap) ==
    /\ ledger \in {{}, {1}}
    /\ dir = {}
    /\ capability = cap
    /\ stub_seen = {}
    /\ da = [c \in Callers |-> IdleFrame]
    /\ result = [c \in Callers |-> <<>>]
    /\ ncalls = [c \in Callers |-> 0]
    /\ ledger0 = [c \in Callers |-> {}]
    /\ fetched = [c \in Callers |-> <<>>]
    /\ cur = [c \in Callers |-> NoRun]
    /\ InitThreadIdle
    /\ InitLogStoreIdle
    /\ InitOrchestratorIdle
    /\ InitBotState({0}, {<< <<"i", 1>> >>}, {{}})

\* ------------------------------------------------------------ download_all

\* lines 88-107: read the ledger once, prune, count the skipped URLs
Start(c, tweet_urls) ==
    LET ids == ledger
        pend == Pending(tweet_urls, ids)
    IN /\ da' = [da EXCEPT ![c] =
                   [IdleFrame EXCEPT !.pc = "loop", !.tweet_urls = tweet_urls,
                                     !.downloaded_ids = ids, !.pending = pend,
                                     !.skipped_count = Len(tweet_urls) - Len(pend)]]
       /\ result' = [result EXCEPT ![c] = <<>>]
       /\ ncalls' = [ncalls EXCEPT ![c] = @ + 1]
       /\ ledger0' = [ledger0 EXCEPT ![c] = ledger]
       /\ fetched' = [fetched EXCEPT ![c] = <<>>]
       /\ cur' = [cur EXCEPT ![c] = NoRun]
       /\ UNCHANGED <<ledger, dir, capability, stub_seen, tvars, lvars, ovars, bvars>>

Call(c, tweet_urls) ==
    /\ da[c].pc = "idle"
    /\ Start(c, tweet_urls)

\* a second call with the same URL list, after the first returned
CallAgain(c) ==
    /\ da[c].pc = "returned"
    /\ ncalls[c] < StubCalls
    /\ Start(c, da[c].tweet_urls)

\* _ensure_directory raises RuntimeError when mkdir fails
CallMkdirFails(c, tweet_urls) ==
    /\ da[c].pc = "idle"
    /\ da' = [da EXCEPT ![c] = [IdleFrame EXCEPT !.pc = "raised", !.tweet_urls = tweet_urls,
                                                 !.exc = "mkdir"]]
    /\ ncalls' = [ncalls EXCEPT ![c] = @ + 1]
    /\ UNCHANGED <<ledger, dir, capability, stub_seen, result, ledger0, fetched, cur, tvars, lvars, ovars, bvars>>

\* line 108 and _download_one lines 233-252: next pending URL, snapshot the directory
BeginOne(c) ==
    /\ da[c].pc = "loop"
    /\ da[c].idx <= Len(da[c].pending)
    /\ da' = [da EXCEPT ![c].pc = "run", ![c].files_before = dir,
                        ![c].attempt = 1, ![c].last_returncode = 0]
    /\ cur' = [cur EXCEPT ![c] = NoRun]
    /\ UNCHANGED <<ledger, dir, capability, stub_seen, result, ncalls, ledger0, fetched, tvars, lvars, ovars, bvars>>

\* the ghost record of one subprocess.run: its outcome and the files it created
Ran(c, rc, timed_out, W) ==
    /\ dir' = dir \cup W
    /\ cur' = [cur EXCEPT ![c] =
                 [@ EXCEPT !.attempts = @ + 1, !.last_rc = rc, !.timed_out = timed_out,
                           !.wrote = @ \cup (W \ dir)]]
    /\ UNCHANGED fetched

\* lines 261-264: subprocess.TimeoutExpired becomes RuntimeError, out of download_all
RunTimeout(c, W) ==
    /\ capability = "any"
    /\ da[c].pc = "run"
    /\ W \in CapabilityWrites(da[c].pending[da[c].idx])
    /\ Ran(c, cur[c].last_rc, TRUE, W)
    /\ da' = [da EXCEPT ![c].pc = "raised", ![c].exc = "timeout"]
    /\ UNCHANGED <<ledger, capability, stub_seen, result, ncalls, ledger0, tvars, lvars, ovars, bvars>>

\* lines 266-269: exit code 0 or 1 ends the retry loop
RunTerminal(c, rc, W) ==
    /\ capability = "any"
    /\ da[c].pc = "run"
    /\ IsTerminalRc(rc)
    /\ W \in CapabilityWrites(da[c].pending[da[c].idx])
    /\ Ran(c, rc, FALSE, W)
    /\ da' = [da EXCEPT ![c].pc = "diff", ![c].last_returncode = rc]
    /\ UNCHANGED <<ledger, capability, stub_seen, result, ncalls, ledger0, tvars, lvars, ovars, bvars>>

\* lines 266-285: any other exit code; the loop goes on while attempts remain
RunError(c, rc, W) ==
    /\ capability = "any"
    /\ da[c].pc = "run"
    /\ ~IsTerminalRc(rc)
    /\ W \in CapabilityWrites(da[c].pending[da[c].idx])
    /\ Ran(c, rc, FALSE, W)
    /\ da' = [da EXCEPT ![c].last_returncode = rc,
                        ![c].attempt = IF @ < _MAX_RETRIES THEN @ + 1 ELSE @,
                        ![c].pc = IF da[c].attempt < _MAX_RETRIES THEN "run" ELSE "diff"]
    /\ UNCHANGED <<ledger, capability, stub_seen, result, ncalls, ledger0, tvars, lvars, ovars, bvars>>

\* The stub of the idempotence scenario: Success with one new file on the first
\* call per identifier, NothingToFetch afterwards.
RunStub(c) ==
    LET tid == _tweet_id_from_url(da[c].pending[da[c].idx])
        first == tid \notin stub_seen
        rc == IF first THEN 0 ELSE 1
    IN /\ capability = "stub"
       /\ da[c].pc = "run"
       /\ Ran(c, rc, FALSE, IF first THEN {FileOf(tid)} ELSE {})
       /\ stub_seen' = stub_seen \cup {tid}
       /\ da' = [da EXCEPT ![c].pc = "diff", ![c].last_returncode = rc]
       /\ UNCHANGED <<ledger, capability, result, ncalls, ledger0, tvars, lvars, ovars, bvars>>

\* _download_one lines 290-296 and download_all lines 110-128: diff the directory,
\* record the new files, update the ledger
Diff(c) ==
    LET f == da[c]
        url == f.pending[f.idx]
        new_files == NewFiles(f.files_before, dir)
        rc_ok == IsTerminalRc(f.last_returncode)
        tid == _tweet_id_from_url(url)
    IN /\ f.pc = "diff"
       /\ ledger' = IF MarksId(tid, new_files, rc_ok)
                    THEN MarkDownloaded(ledger, <<tid>>) ELSE ledger
       /\ da' = [da EXCEPT ![c].pc = "loop", ![c].idx = @ + 1,
                           ![c].files_before = {}, ![c].attempt = 1,
                           ![c].last_returncode = 0,
                           ![c].saved = @ \o SavedFiles(url, new_files),
                           ![c].existed_count =
                               IF CountsExisted(tid, new_files, rc_ok) THEN @ + 1 ELSE @]
       /\ fetched' = [fetched EXCEPT ![c] =
                        Append(@, [url |-> url, rc_ok |-> cur[c].last_rc \in {0, 1},
                                   wrote |-> cur[c].wrote,
                                   marked |-> MarksId(tid, new_files, rc_ok)])]
       /\ cur' = [cur EXCEPT ![c] = NoRun]
       /\ UNCHANGED <<dir, capability, stub_seen, result, ncalls, ledger0, tvars, lvars, ovars, bvars>>

\* line 137
Return(c) ==
    /\ da[c].pc = "loop"
    /\ da[c].idx > Len(da[c].pending)
    /\ da' = [da EXCEPT ![c].pc = "returned"]
    /\ result' = [result EXCEPT ![c] =
                    <<[saved |-> da[c].saved, skipped_count |-> da[c].skipped_count,
                       existed_count |-> da[c].existed_count]>>]
    /\ UNCHANGED <<ledger, dir, capability, stub_seen, ncalls, ledger0, fetched, cur, tvars, lvars, ovars, bvars>>

Step(c) ==
    \/ BeginOne(c)
    \/ \E W \in SUBSET {FileOf(n) : n \in Ids} : RunTimeout(c, W)
    \/ \E rc \in ReturnCodes, W \in SUBSET {FileOf(n) : n \in Ids} : RunTerminal(c, rc, W)
    \/ \E rc \in ReturnCodes, W \in SUBSET {FileOf(n) : n \in Ids} : RunError(c, rc, W)
    \/ Diff(c)
    \/ Return(c)

\* one download_all call running alone
Init == InitFetch("any")

Next ==
    \/ \E urls \in UrlLists(FetchUrls, MaxUrls) : Call("handler", urls)
    \/ \E urls \in UrlLists(FetchUrls, MaxUrls) : CallMkdirFails("handler", urls)
    \/ Step("handler")

Spec == Init /\ [][Next]_vars

\* two download_all calls running concurrently on the executor
SpecConc ==
    /\ InitFetch("any")
    /\ [][\E c \in Callers :
            \/ \E urls \in UrlLists(FetchUrls, ConcUrls) : Call(c, urls)
            \/ Step(c)]_vars

\* download_all called StubCalls times in sequence with one URL list, against the stub
SpecIdem ==
    /\ InitFetch("stub")
    /\ [][\/ \E urls \in UrlLists({u \in FetchUrls : u[1] # "media"}, MaxUrls) : Call("handler", urls)
          \/ CallAgain("handler")
          \/ BeginOne("handler")
          \/ RunStub("handler")
          \/ Diff("handler")
          \/ Return("handler")]_vars

\* ------------------------------------------------- properties: download_all

\* the calls that got past _ensure_directory
Started(c) == da[c].pc # "idle" /\ da[c].exc # "mkdir"

\* the indices of the input whose tweet id was in the ledger when the call started
KnownAtStart(c) ==
    {i \in DOMAIN da[c].tweet_urls :
        /\ _tweet_id_from_url(da[c].tweet_urls[i]) # NoId
        /\ _tweet_id_from_url(da[c].tweet_urls[i]) \in ledger0[c]}

\* the URLs gallery-dl was run on during the call
Invoked(c) ==
    {fetched[c][j].url : j \in DOMAIN fetched[c]}
      \cup (IF cur[c].attempts > 0 THEN {da[c].pending[da[c].idx]} ELSE {})

\* C1: gallery-dl is never run on a URL whose id was in the ledger when the call
\* started, skipped_count is the number of those URLs, and at return
\* skipped_count plus the number of URLs fetched is the length of the input.
C1_PruneBeforeCost ==
    \A c \in Callers : Started(c) =>
        /\ \A i \in KnownAtStart(c) : da[c].tweet_urls[i] \notin Invoked(c)
        /\ da[c].skipped_count = Cardinality(KnownAtStart(c))
        /\ da[c].pc = "returned" =>
              /\ result[c][1].skipped_count = Cardinality(KnownAtStart(c))
              /\ result[c][1].skipped_count + Len(fetched[c]) = Len(da[c].tweet_urls)

C1_Witness ==
    /\ da["handler"].pc = "returned"
    /\ result["handler"][1].skipped_count = 1
    /\ Len(fetched["handler"]) = 2

\* C2: against the stub, the first call leaves every id of the list in the ledger
\* and saves the stub's one file for every id not known before; every later call
\* with the same list skips every URL, runs gallery-dl never and leaves the ledger
\* as it was.
C2_Idempotence ==
    LET f == da["handler"]
        ids == {_tweet_id_from_url(f.tweet_urls[i]) : i \in DOMAIN f.tweet_urls}
    IN /\ (ncalls["handler"] = 1 /\ f.pc = "returned") =>
            /\ ids \subseteq ledger
            /\ \A t \in ids \ ledger0["handler"] :
                  Cardinality({i \in DOMAIN f.saved :
                                  f.saved[i].saved_path = FileOf(t)}) = 1
       /\ ncalls["handler"] >= 2 =>
            /\ Invoked("handler") = {}
            /\ ledger = ledger0["handler"]
            /\ f.skipped_count = Len(f.tweet_urls)
            /\ f.pc = "returned" => result["handler"][1].skipped_count = Len(f.tweet_urls)

C2_Witness ==
    /\ ncalls["handler"] = 2
    /\ da["handler"].pc = "returned"
    /\ Len(da["handler"].tweet_urls) = 3
    /\ ledger = Ids
    /\ ledger0["handler"] = Ids
    /\ Cardinality(dir) = 2

\* the ids a lone call must have marked, given what gallery-dl did for each URL
ExpectedMarks(c) ==
    {_tweet_id_from_url(fetched[c][j].url) : j \in
        {k \in DOMAIN fetched[c] :
            /\ _tweet_id_from_url(fetched[c][k].url) # NoId
            /\ (fetched[c][k].wrote # {} \/ fetched[c][k].rc_ok)}}

ExpectedExisted(c) ==
    Cardinality({k \in DOMAIN fetched[c] :
                    /\ _tweet_id_from_url(fetched[c][k].url) # NoId
                    /\ fetched[c][k].wrote = {}
                    /\ fetched[c][k].rc_ok})

\* C3: in a call running alone the ledger is the ledger at call start plus the ids
\* of the fetched URLs that produced a new file or ended with exit code 0 or 1, and
\* existed_count counts the URLs with an id, no new file and exit code 0 or 1.
C3_LedgerUpdateRule ==
    Started("handler") =>
        /\ ledger = ledger0["handler"] \cup ExpectedMarks("handler")
        /\ da["handler"].existed_count = ExpectedExisted("handler")

C3_Witness ==
    /\ da["handler"].pc = "returned"
    /\ result["handler"][1].existed_count = 1
    /\ \E j, k, m \in DOMAIN fetched["handler"] :
          /\ fetched["handler"][j].rc_ok /\ fetched["handler"][j].wrote = {}
          /\ fetched["handler"][j].url = <<"user", 1>>
          /\ ~fetched["handler"][k].rc_ok /\ fetched["handler"][k].wrote = {}
          /\ fetched["handler"][k].url = <<"i", 2>>
          /\ ~fetched["handler"][m].rc_ok /\ fetched["handler"][m].wrote # {}
          /\ fetched["handler"][m].url = <<"i", 1>>
    /\ ledger = {1}

\* the tweet ids of the call's URL list; a URL without an id stands for NoId
IdsOfCall(c) == {_tweet_id_from_url(da[c].tweet_urls[i]) : i \in DOMAIN da[c].tweet_urls}

\* C4: when two concurrent calls fetch different identifiers, every file a call
\* reports as newly saved for a URL was created by that URL's own gallery-dl runs,
\* and a call marks an id only when its own fetch created a file or ended with
\* exit code 0 or 1.
C4_AccountingIsolation ==
    \A c, d \in Callers :
        (/\ c # d
         /\ NoId \notin IdsOfCall(c) \cup IdsOfCall(d)
         /\ IdsOfCall(c) \cap IdsOfCall(d) = {}) =>
            /\ \A i \in DOMAIN da[c].saved :
                  \E j \in DOMAIN fetched[c] :
                      /\ fetched[c][j].url = da[c].saved[i].source_url
                      /\ da[c].saved[i].saved_path \in fetched[c][j].wrote
            /\ \A j \in DOMAIN fetched[c] :
                  fetched[c][j].marked =>
                      (fetched[c][j].wrote # {} \/ fetched[c][j].rc_ok)

\* the error list of a DownloadResult
ErrorsOf(r) == IF "errors" \in DOMAIN r THEN r.errors ELSE <<>>

\* [urlOk1, urlBad, urlOk2]: gallery-dl fails only for the second, on every attempt
PartialFailure(c) ==
    /\ Len(da[c].tweet_urls) = 3
    /\ Len(fetched[c]) = 3
    /\ fetched[c][1].rc_ok /\ fetched[c][1].wrote # {}
    /\ ~fetched[c][2].rc_ok /\ fetched[c][2].wrote = {}
    /\ fetched[c][3].rc_ok /\ fetched[c][3].wrote # {}

\* C5: download_all([urlOk1, urlBad, urlOk2]) returns the saved files of urlOk1 and
\* urlOk2 and a non-empty error list that names urlBad.
C5_PartialFailureIsolation ==
    \A c \in Callers :
        (da[c].pc = "returned" /\ PartialFailure(c)) =>
            /\ \A j \in {1, 3} : \E i \in DOMAIN result[c][1].saved :
                  result[c][1].saved[i].source_url = fetched[c][j].url
            /\ \E i \in DOMAIN ErrorsOf(result[c][1]) :
                  ErrorsOf(result[c][1])[i].url = fetched[c][2].url

\* C6: a timeout of gallery-dl for one URL ends neither the processing of the URLs
\* after it nor loses the files saved for the URLs before it.
C6_TimeoutIsolation ==
    \A c \in Callers :
        (da[c].pc = "raised" /\ cur[c].timed_out) =>
            /\ da[c].idx = Len(da[c].pending)
            /\ da[c].saved = <<>>

\* C7: gallery-dl runs at most _MAX_RETRIES times per URL; a run follows only runs
\* that ended with a non-terminal exit code; the retry loop is left with exit code
\* 0 or 1, or after exactly the third failed run, and then the batch goes on.
C7_BoundedRetries ==
    \A c \in Callers :
        /\ cur[c].attempts <= 3
        /\ da[c].pc = "run" =>
              /\ cur[c].attempts < 3
              /\ cur[c].attempts > 0 => (cur[c].last_rc \notin {0, 1} /\ ~cur[c].timed_out)
        /\ da[c].pc = "diff" =>
              /\ cur[c].attempts >= 1
              /\ ~cur[c].timed_out
              /\ cur[c].last_rc \notin {0, 1} => cur[c].attempts = 3
        /\ \A j \in DOMAIN fetched[c] : j < da[c].idx

C7_Witness ==
    /\ da["handler"].pc = "run"
    /\ Len(fetched["handler"]) = 1
    /\ ~fetched["handler"][1].rc_ok
    /\ cur["handler"].attempts = 2

\* C23: download_all does not take a URL without a tweet id for a normal item:
\* gallery-dl is never run on such a URL and a call given one returns no result.
C23_ExtractionTotal ==
    \A c \in Callers :
        /\ \A j \in DOMAIN fetched[c] : _tweet_id_from_url(fetched[c][j].url) # NoId
        /\ (\E i \in DOMAIN da[c].tweet_urls :
                _tweet_id_from_url(da[c].tweet_urls[i]) = NoId) => da[c].pc # "returned"


\* --------------------------------------------------------- thread resolver

ThreadIds == 1..NumPosts

StartUrls == {<<k, n>> : k \in {"user", "i"}, n \in ThreadIds} \cup {<<"media", 1>>}

\* one metadata dict of the JSON output: author.name (or None) and reply_id (0 = root)
Entries(ids) == [author : {"userA", "userB", None}, reply_id : {0} \cup ids]

\* a _extract_tweet_id that finds an id in every URL
_extract_tweet_id_any(url) == url[2]

\* _extract_tweet_id: the id of both URL forms; NoId stands for raising ValueError
_extract_tweet_id(url) == IF url[1] \in {"user", "i"} THEN url[2] ELSE NoId

\* _parse_tweet_info: the first entry that names an author decides; an entry
\* without an author is passed over together with its reply_id
RECURSIVE _parse_tweet_info(_)
_parse_tweet_info(stdout) ==
    IF stdout = <<>> THEN [reply_id |-> NoId, author_name |-> None]
    ELSE IF Head(stdout).author # None
         THEN [reply_id |-> Head(stdout).reply_id, author_name |-> Head(stdout).author]
         ELSE _parse_tweet_info(Tail(stdout))

\* what gallery-dl --dump-json prints for tweet id. In the free environment:
\* nothing, any one line, or a line without an author followed by a line with one.
\* In a chain of env.len tweets, tweet i replies to i - 1 (tweet 1 to nothing)
\* and one tweet may be a stranger's.
Stdouts(id) ==
    IF env.kind = "free"
    THEN {<<>>} \cup {<<e>> : e \in Entries(ThreadIds)}
           \cup {<<x, e>> : x \in {y \in Entries(ThreadIds) : y.author = None},
                            e \in {y \in Entries(ThreadIds) : y.author # None}}
    ELSE {<<[author |-> IF id = env.stranger THEN "userB" ELSE "userA",
             reply_id |-> id - 1]>>}

\* a depth test that lets one more frame through
DepthLimitPassedByOne(depth) == depth > _MAX_THREAD_DEPTH

\* line 97
DepthLimitReached(depth) == depth >= _MAX_THREAD_DEPTH

\* a visited test that never finds the id
VisitedNever(tweet_id, visited) == FALSE

\* lines 104-106: "if tweet_id in visited"
Visited(tweet_id, visited) == tweet_id \in visited

\* a filter that follows the author of each tweet
NextAuthorFilterLatest(author_filter, author_name) == author_name

\* lines 112-113: the filter after this tweet
NextAuthorFilter(author_filter, author_name) ==
    IF author_filter = None THEN author_name ELSE author_filter

\* lines 112-122: is this tweet's URL appended
Appends(author_filter, author_name) ==
    /\ author_filter # None
    /\ ~(author_name # None /\ author_name # author_filter)

\* a walk that stops at a tweet of another author, as the docstring says
GoesOnUntilStranger(reply_id, author_filter, author_name) ==
    /\ reply_id # NoId
    /\ ~(author_filter # None /\ author_name # None /\ author_name # author_filter)

\* lines 124-132: does the walk go on to the parent
GoesOn(reply_id, author_filter, author_name) == reply_id # NoId

InitThread ==
    /\ env \in {FreeEnv} \cup
                {[kind |-> "chain", len |-> n, stranger |-> k] :
                    n \in (1..NumPosts + 1) \cup {ChainLen}, k \in 0..ChainLen}
    /\ env.stranger <= env.len
    /\ th = IdleThread
    /\ meta = <<>>
    /\ fetches = <<>>
    /\ ledger = {}
    /\ dir = {}
    /\ capability = "any"
    /\ stub_seen = {}
    /\ da = [c \in Callers |-> IdleFrame]
    /\ result = [c \in Callers |-> <<>>]
    /\ ncalls = [c \in Callers |-> 0]
    /\ ledger0 = [c \in Callers |-> {}]
    /\ fetched = [c \in Callers |-> <<>>]
    /\ cur = [c \in Callers |-> NoRun]
    /\ InitLogStoreIdle
    /\ InitOrchestratorIdle
    /\ InitBotState({0}, {<< <<"i", 1>> >>}, {{}})

\* get_thread lines 62-66
GetThread(tweet_url) ==
    /\ th.pc = "idle"
    /\ _extract_tweet_id(tweet_url) # NoId
    /\ th' = [IdleThread EXCEPT !.pc = "walk", !.start_url = tweet_url, !.url = tweet_url,
                                !.conversation_id = _extract_tweet_id(tweet_url)]
    /\ UNCHANGED <<env, meta, fetches, fvars, lvars, ovars, bvars>>

\* get_thread line 62: _extract_tweet_id raises ValueError
GetThreadMalformed(tweet_url) ==
    /\ th.pc = "idle"
    /\ _extract_tweet_id(tweet_url) = NoId
    /\ th' = [IdleThread EXCEPT !.pc = "raised", !.start_url = tweet_url, !.url = tweet_url,
                                !.exc = "ValueError"]
    /\ UNCHANGED <<env, meta, fetches, fvars, lvars, ovars, bvars>>

\* lines 97-102: the depth bound ends the walk; every frame returns
CollectDepthLimit ==
    /\ th.pc = "walk"
    /\ DepthLimitReached(th.depth)
    /\ th' = [th EXCEPT !.pc = "done"]
    /\ UNCHANGED <<env, meta, fetches, fvars, lvars, ovars, bvars>>

\* lines 104-106: a tweet id seen before ends the walk
CollectVisited ==
    /\ th.pc = "walk"
    /\ ~DepthLimitReached(th.depth)
    /\ Visited(_extract_tweet_id(th.url), th.visited)
    /\ th' = [th EXCEPT !.pc = "done"]
    /\ UNCHANGED <<env, meta, fetches, fvars, lvars, ovars, bvars>>

\* lines 107-109 and 151-161: gallery-dl times out, RuntimeError leaves get_thread
CollectTimeout ==
    LET tweet_id == _extract_tweet_id(th.url)
    IN /\ th.pc = "walk"
       /\ ~DepthLimitReached(th.depth)
       /\ ~Visited(tweet_id, th.visited)
       /\ env.kind = "free"
       /\ th' = [th EXCEPT !.pc = "raised", !.exc = "RuntimeError",
                           !.visited = @ \cup {tweet_id}]
       /\ fetches' = Append(fetches, tweet_id)
       /\ UNCHANGED <<env, meta, fvars, lvars, ovars, bvars>>

\* lines 107-132: one call of _collect_thread_urls that gets an answer (whatever
\* the exit code) from gallery-dl
Collect(rc, stdout) ==
    LET tweet_id == _extract_tweet_id(th.url)
        info == _parse_tweet_info(stdout)
        goes_on == GoesOn(info.reply_id, th.author_filter, info.author_name)
    IN /\ th.pc = "walk"
       /\ ~DepthLimitReached(th.depth)
       /\ ~Visited(tweet_id, th.visited)
       /\ stdout \in Stdouts(tweet_id)
       /\ fetches' = Append(fetches, tweet_id)
       /\ meta' = (tweet_id :> info) @@ meta
       /\ th' = [th EXCEPT
                   !.visited = @ \cup {tweet_id},
                   !.returncode = rc,
                   !.author_filter = NextAuthorFilter(@, info.author_name),
                   !.tweet_urls = IF Appends(th.author_filter, info.author_name)
                                  THEN Append(@, th.url) ELSE @,
                   !.pc = IF goes_on THEN "walk" ELSE "done",
                   !.url = IF goes_on THEN <<"i", info.reply_id>> ELSE @,
                   !.depth = IF goes_on THEN @ + 1 ELSE @]
       /\ UNCHANGED <<env, fvars, lvars, ovars, bvars>>

NextThread ==
    \/ \E u \in StartUrls : env.kind = "free" /\ GetThread(u)
    \/ env.kind = "chain" /\ GetThread(<<"user", env.len>>)
    \/ \E u \in StartUrls : GetThreadMalformed(u)
    \/ CollectDepthLimit
    \/ CollectVisited
    \/ CollectTimeout
    \/ \E rc \in ReturnCodes, stdout \in Stdouts(_extract_tweet_id(th.url)) :
          Collect(rc, stdout)

\* get_thread runs on one thread of the executor, which keeps running it
SpecThread == InitThread /\ [][NextThread]_vars /\ WF_vars(NextThread)

\* --------------------------------------------------- properties: get_thread

\* every tweet the walk asked about answered with the start tweet's author
OnlyStartAuthor ==
    /\ Len(fetches) >= 1
    /\ \A k \in DOMAIN fetches :
          /\ fetches[k] \in DOMAIN meta
          /\ meta[fetches[k]].author_name # None
          /\ meta[fetches[k]].author_name = meta[fetches[1]].author_name

\* C8: for a reply chain of the start author alone, get_thread returns the id of
\* the start URL as conversation_id and, as tweet_urls, the start URL followed by
\* the /i/status/ URL of each ancestor in walk order.
C8_ThreadResult ==
    (th.pc = "done" /\ OnlyStartAuthor) =>
        /\ th.conversation_id = _extract_tweet_id(th.start_url)
        /\ th.tweet_urls = [k \in 1..Len(fetches) |->
                              IF k = 1 THEN th.start_url ELSE <<"i", fetches[k]>>]

C10_WalkTermination ==
    /\ [](/\ Len(fetches) <= 50
          /\ Len(th.tweet_urls) <= 50
          /\ th.pc = "walk" => th.depth = Len(fetches)
          /\ (th.pc = "raised" /\ th.exc = "RuntimeError") =>
                fetches[Len(fetches)] \notin DOMAIN meta)
    /\ [](th.pc = "walk" => <>(th.pc \in {"done", "raised"}))

\* the chain of ChainLen tweets, cut by the depth bound
C10_Witness ==
    /\ env.kind = "chain"
    /\ env.len = ChainLen
    /\ th.pc = "done"
    /\ Len(fetches) = 50
    /\ meta[fetches[50]].reply_id # NoId
    /\ meta[fetches[50]].reply_id \notin th.visited

\* the metadata says tweet a replies to b and b replies to a, both by one author
CycleOfTwo ==
    /\ Len(fetches) >= 2
    /\ fetches[1] # fetches[2]
    /\ fetches[1] \in DOMAIN meta /\ fetches[2] \in DOMAIN meta
    /\ meta[fetches[1]].reply_id = fetches[2]
    /\ meta[fetches[2]].reply_id = fetches[1]
    /\ meta[fetches[1]].author_name # None
    /\ meta[fetches[2]].author_name = meta[fetches[1]].author_name

\* C11: on a cycle of two tweets get_thread asks about each tweet once, ends
\* before the depth bound and returns exactly the entries of the two tweets.
C11_CycleSafety ==
    CycleOfTwo =>
        /\ Len(fetches) = 2
        /\ th.depth <= 2
        /\ th.pc = "done" =>
              th.tweet_urls = <<th.start_url, <<"i", fetches[2]>> >>

\* C12: a failed lookup of a parent (depth >= 1) never leaves get_thread as an
\* exception; the walk ends with the thread collected so far.
C12_AncestorLookupFailure ==
    (th.pc = "raised" /\ th.exc = "RuntimeError") => Len(fetches) <= 1

\* C13: when gallery-dl fails for the start tweet, by timeout or by an exit code
\* other than 0 and 1, get_thread does not return a TweetThread.
C13_FatalStartFailure ==
    (th.pc = "done" /\ Len(fetches) = 1) => th.returncode \in {0, 1}

\* C22: for a start URL that holds no tweet id, get_thread raises ValueError
\* before it asks gallery-dl about anything, and returns no TweetThread.
C22_MalformedUrl ==
    th.start_url[1] = "media" =>
        /\ th.pc = "raised"
        /\ th.exc = "ValueError"
        /\ fetches = <<>>
        /\ th.tweet_urls = <<>>

\* get_thread was called with a /media URL
C22_Witness ==
    /\ th.start_url = <<"media", 1>>
    /\ th.pc = "raised"
    /\ th.exc = "ValueError"
    /\ fetches = <<>>

\* the first tweet the walk asked about that named its author, 0 when none did
FirstNamed ==
    LET named == {k \in DOMAIN fetches :
                    fetches[k] \in DOMAIN meta /\ meta[fetches[k]].author_name # None}
    IN IF named = {} THEN 0 ELSE CHOOSE k \in named : \A j \in named : k <= j

\* C31: the author filter is the author of the start tweet for the whole walk,
\* and the URL of every tweet the walk asked about whose author is the filter or
\* is unknown is in tweet_urls, the start tweet's URL included.
C31_AuthorFilterDetermination ==
    (th.pc \in {"walk", "done"} /\ Len(fetches) >= 1) =>
        /\ th.author_filter = meta[fetches[1]].author_name
        /\ \A k \in DOMAIN fetches :
              meta[fetches[k]].author_name \in {None, th.author_filter} =>
                  (IF k = 1 THEN th.start_url ELSE <<"i", fetches[k]>>)
                      \in Range(th.tweet_urls)

C40_NoDuplicatePosts ==
    /\ \A i, j \in DOMAIN fetches : fetches[i] = fetches[j] => i = j
    /\ \A i, j \in DOMAIN th.tweet_urls :
          _extract_tweet_id(th.tweet_urls[i]) = _extract_tweet_id(th.tweet_urls[j]) => i = j

\* a cycle of three tweets of one author, walked once round
C40_Witness ==
    /\ env.kind = "free"
    /\ th.pc = "done"
    /\ Len(fetches) = 3
    /\ meta[fetches[3]].reply_id = fetches[1]
    /\ Len(th.tweet_urls) = 2

\* ------------------------------------------------------------------ LogStore

\* ids marked before the run: one per batch a slow client has not read yet
BacklogIds(k) == {2 + i : i \in 1..k}

IdLists(n) == UNION {[1..k -> MarkIds] : k \in 0..n}

\* write_text has opened the file for writing and not written yet
Torn == [valid |-> FALSE, data |-> <<>>]

\* a reader that takes every file for unreadable
_read_id_list_nothing(file) == <<>>

\* _read_id_list: the JSON list of the file; [] when it cannot be read or parsed
_read_id_list(file) == IF file.valid THEN file.data ELSE <<>>

\* get_downloaded_ids: frozenset(self._read_id_list())
get_downloaded_ids(file) == Range(_read_id_list(file))

\* json.dumps(sorted(existing))
SortedIds(S) == SelectSeq([i \in 1..(2 + QueueMaxsize) |-> i], LAMBDA i : i \in S)

\* a lock that lets everybody in
CanEnterAlways(holder) == TRUE

\* with self._lock: a thread enters when no thread holds the lock
CanEnter(holder) == holder = "free"

\* a bounded queue that never reports queue.Full
QueueFullNever(q) == FALSE

\* put_nowait raises queue.Full when the queue holds maxsize batches
QueueFull(q) == Len(q) >= QueueMaxsize

InitFetchIdle ==
    /\ ledger = {}
    /\ dir = {}
    /\ capability = "any"
    /\ stub_seen = {}
    /\ da = [c \in Callers |-> IdleFrame]
    /\ result = [c \in Callers |-> <<>>]
    /\ ncalls = [c \in Callers |-> 0]
    /\ ledger0 = [c \in Callers |-> {}]
    /\ fetched = [c \in Callers |-> <<>>]
    /\ cur = [c \in Callers |-> NoRun]

\* A LogStore with client c1 subscribed: it has read every batch so far (the id
\* file is empty), or it is behind by k batches, one per id marked since.
InitLogStoreBehind(k) ==
        /\ ids_file = [valid |-> TRUE, data |-> SortedIds(BacklogIds(k))]
        /\ lock = "free"
        /\ subscribers = {"c1"}
        /\ queues = [c \in Clients |->
                        IF c = "c1" THEN [i \in 1..k |-> <<2 + i>>] ELSE <<>>]
        /\ mk = [t \in Markers |-> IdleMark]
        /\ sse = [c \in Clients |->
                     IF c = "c1" THEN [IdleSse EXCEPT !.pc = "sub"] ELSE IdleSse]
            /\ added = [i \in MarkIds |-> 0]
        /\ ever = BacklogIds(k)
        /\ InitFetchIdle
        /\ InitThreadIdle
        /\ InitOrchestratorIdle
        /\ InitBotState({0}, {<< <<"i", 1>> >>}, {{}})
    /\ InitBotState({0}, {<< <<"i", 1>> >>}, {{}})

\* mark_downloaded lines 139-146: the empty list returns at once; otherwise take
\* the lock, read the file, keep the ids not in it; nothing new: release, return 0
MarkEnter(t, tweet_ids) ==
    LET existing == Range(_read_id_list(ids_file))
        new_ids == NewIds(existing, tweet_ids)
    IN /\ mk[t].pc = "idle"
       /\ IF tweet_ids = <<>>
          THEN /\ mk' = [mk EXCEPT ![t] = [IdleMark EXCEPT !.pc = "returned"]]
               /\ UNCHANGED lock
          ELSE /\ CanEnter(lock)
               /\ IF new_ids = <<>>
                  THEN /\ mk' = [mk EXCEPT ![t] =
                                   [IdleMark EXCEPT !.pc = "returned", !.tweet_ids = tweet_ids,
                                                    !.before = existing,
                                                    !.fault = ~ids_file.valid]]
                       /\ UNCHANGED lock
                  ELSE /\ mk' = [mk EXCEPT ![t] =
                                   [IdleMark EXCEPT !.pc = "open", !.tweet_ids = tweet_ids,
                                                    !.before = existing,
                                                    !.fault = ~ids_file.valid,
                                                    !.existing = MarkDownloaded(existing, tweet_ids),
                                                    !.new_ids = new_ids]]
                       /\ lock' = t
       /\ UNCHANGED <<ids_file, subscribers, queues, sse, added, ever, fvars, tvars, ovars, bvars>>

\* lines 147-150, write_text: the file is opened for writing, which empties it
MarkOpen(t) ==
    /\ mk[t].pc = "open"
    /\ ids_file' = Torn
    /\ mk' = [mk EXCEPT ![t].pc = "write"]
    /\ UNCHANGED <<lock, subscribers, queues, sse, added, ever, fvars, tvars, ovars, bvars>>

\* lines 147-150: the sorted list is written and the lock released
MarkWrite(t) ==
    /\ mk[t].pc = "write"
    /\ ids_file' = [valid |-> TRUE, data |-> SortedIds(mk[t].existing)]
    /\ lock' = "free"
    /\ added' = [i \in MarkIds |->
                    IF i \in Range(mk[t].new_ids) THEN added[i] + 1 ELSE added[i]]
    /\ ever' = ever \cup mk[t].existing
    /\ mk' = [mk EXCEPT ![t].pc = "notify", ![t].existing = {}, ![t].subs = subscribers]
    /\ UNCHANGED <<subscribers, queues, sse, fvars, tvars, ovars, bvars>>

\* _notify_subscribers lines 178-180: copy the subscriber set under the lock
NotifySnapshot(t) ==
    /\ mk[t].pc = "notify"
    /\ CanEnter(lock)
    /\ mk' = [mk EXCEPT ![t].pc = "put", ![t].todo = subscribers]
    /\ UNCHANGED <<ids_file, lock, subscribers, queues, sse, added, ever, fvars, tvars, ovars, bvars>>

\* lines 181-185: put_nowait into one queue of the copy; a full queue is dead
NotifyPut(t, q) ==
    /\ mk[t].pc = "put"
    /\ q \in mk[t].todo
    /\ IF QueueFull(queues[q])
       THEN /\ mk' = [mk EXCEPT ![t].todo = @ \ {q}, ![t].dead = @ \cup {q}]
            /\ UNCHANGED queues
       ELSE /\ mk' = [mk EXCEPT ![t].todo = @ \ {q}]
            /\ queues' = [queues EXCEPT ![q] = Append(@, mk[t].new_ids)]
    /\ UNCHANGED <<ids_file, lock, subscribers, sse, added, ever, fvars, tvars, ovars, bvars>>

\* lines 186-188 and 154: the dead queues leave the set; return len(new_ids)
NotifyEnd(t) ==
    /\ mk[t].pc = "put"
    /\ mk[t].todo = {}
    /\ mk[t].dead # {} => CanEnter(lock)
    /\ subscribers' = subscribers \ mk[t].dead
    /\ mk' = [mk EXCEPT ![t].pc = "returned", ![t].ret = Len(mk[t].new_ids)]
    /\ UNCHANGED <<ids_file, lock, queues, sse, added, ever, fvars, tvars, ovars, bvars>>

MarkStep(t) ==
    \/ MarkOpen(t)
    \/ MarkWrite(t)
    \/ NotifySnapshot(t)
    \/ \E q \in Clients : NotifyPut(t, q)
    \/ NotifyEnd(t)

\* api_history_stream lines 2166-2167 and get_downloaded_ids lines 128-131:
\* the client connects; the id list is read under the lock and sent, sorted, as
\* the snapshot event, before subscribe() is called (line 2170)
StreamSnapshot(c) ==
    /\ sse[c].pc = "off"
    /\ CanEnter(lock)
    /\ sse' = [sse EXCEPT ![c].pc = "snap", ![c].snapped = TRUE,
                          ![c].snapshot = SortedIds(Range(_read_id_list(ids_file)))]
    /\ UNCHANGED <<ids_file, lock, subscribers, queues, mk, added, ever,
                   fvars, tvars, ovars, bvars>>

\* subscribe: a new queue joins the set, under the lock
Subscribe(c) ==
    /\ sse[c].pc \in {"off", "snap"}
    /\ CanEnter(lock)
    /\ subscribers' = subscribers \cup {c}
    /\ queues' = [queues EXCEPT ![c] = <<>>]
    /\ sse' = [sse EXCEPT ![c].pc = "sub"]
    /\ UNCHANGED <<ids_file, lock, mk, added, ever, fvars, tvars, ovars, bvars>>

\* event_stream: q.get hands over the oldest batch, sent as an update event
QueueGet(c) ==
    /\ sse[c].pc = "sub"
    /\ queues[c] # <<>>
    /\ Len(sse[c].yielded) < MaxGets
    /\ sse' = [sse EXCEPT ![c].yielded = Append(@, Head(queues[c]))]
    /\ queues' = [queues EXCEPT ![c] = Tail(@)]
    /\ UNCHANGED <<ids_file, lock, subscribers, mk, added, ever, fvars, tvars, ovars, bvars>>

\* the client goes away: unsubscribe in the finally clause, under the lock
Unsubscribe(c) ==
    /\ sse[c].pc = "sub"
    /\ CanEnter(lock)
    /\ subscribers' = subscribers \ {c}
    /\ sse' = [sse EXCEPT ![c].pc = "closed"]
    /\ UNCHANGED <<ids_file, lock, queues, mk, added, ever, fvars, tvars, ovars, bvars>>

ClientStep(c) ==
    \/ Subscribe(c)
    \/ QueueGet(c)
    \/ Unsubscribe(c)

\* write_text fails to open the file: OSError leaves mark_downloaded, the with
\* statement releases the lock, the file is as it was
MarkOpenFails(t) ==
    /\ mk[t].pc = "open"
    /\ lock' = "free"
    /\ mk' = [mk EXCEPT ![t].pc = "raised", ![t].exc = "OSError", ![t].fault = TRUE]
    /\ UNCHANGED <<ids_file, subscribers, queues, sse, added, ever, fvars, tvars, ovars, bvars>>

\* write_text fails after opening the file (a full disk): OSError leaves
\* mark_downloaded, the file stays empty
MarkWriteFails(t) ==
    /\ mk[t].pc = "write"
    /\ lock' = "free"
    /\ mk' = [mk EXCEPT ![t].pc = "raised", ![t].exc = "OSError", ![t].fault = TRUE]
    /\ UNCHANGED <<ids_file, subscribers, queues, sse, added, ever, fvars, tvars, ovars, bvars>>

\* the id file becomes unreadable or unparsable; what it held is still on disk
FileUnreadable ==
    /\ lock = "free"
    /\ ids_file.valid
    /\ ids_file.data # <<>>
    /\ ids_file' = [ids_file EXCEPT !.valid = FALSE]
    /\ UNCHANGED <<lock, subscribers, queues, mk, sse, added, ever, fvars, tvars, ovars, bvars>>

\* the process is killed and started again: its threads, its lock and its
\* subscribers are gone, the file is what the disk holds
Crash ==
    /\ \E t \in Markers : mk[t].pc \notin {"idle", "dead"}
    /\ mk' = [t \in Markers |->
                 IF mk[t].pc = "idle" THEN mk[t] ELSE [IdleMark EXCEPT !.pc = "dead"]]
    /\ lock' = "free"
    /\ subscribers' = {}
    /\ queues' = [c \in Clients |-> <<>>]
    /\ sse' = [c \in Clients |-> [sse[c] EXCEPT !.pc = "closed"]]
    /\ UNCHANGED <<ids_file, added, ever, fvars, tvars, ovars, bvars>>

\* mark_downloaded from two threads with the process killed at any point
SpecCrash ==
    /\ InitLogStoreBehind(0)
    /\ [][\/ \E t \in Markers, tweet_ids \in IdLists(MaxIdList) : MarkEnter(t, tweet_ids)
          \/ \E t \in Markers : MarkStep(t)
          \/ \E c \in Clients : ClientStep(c)
          \/ Crash]_vars

\* mark_downloaded from two threads on a disk that fails
SpecIOError ==
    /\ InitLogStoreBehind(0)
    /\ [][\/ \E t \in Markers, tweet_ids \in IdLists(MaxIdList) : MarkEnter(t, tweet_ids)
          \/ \E t \in Markers : MarkStep(t) \/ MarkOpenFails(t) \/ MarkWriteFails(t)
          \/ \E c \in Clients : ClientStep(c)
          \/ FileUnreadable]_vars

\* mark_downloaded with any list up to MaxIdList ids, from two threads, while
\* clients of the stream come and go
SpecLogStore ==
    /\ InitLogStoreBehind(0)
    /\ [][\/ \E t \in Markers, tweet_ids \in IdLists(MaxIdList) : MarkEnter(t, tweet_ids)
          \/ \E t \in Markers : MarkStep(t)
          \/ \E c \in Clients : ClientStep(c)]_vars

\* mark_downloaded of one id (as download_all calls it) or none, from two threads,
\* with client c1 up to date or behind by a full queue; a thread inside
\* mark_downloaded keeps running
\* the clients of /api/history/stream, snapshot first, while mark_downloaded
\* calls go on
SpecStream ==
    /\ InitLogStoreBehind(0)
    /\ [][\/ \E t \in Markers, tweet_ids \in IdLists(1) : MarkEnter(t, tweet_ids)
          \/ \E t \in Markers : MarkStep(t)
          \/ \E c \in Clients : StreamSnapshot(c)
          \/ \E c \in Clients : ClientStep(c)]_vars

SpecNotify ==
    /\ \E k \in {0, QueueMaxsize} : InitLogStoreBehind(k)
    /\ [][\/ \E t \in Markers, tweet_ids \in IdLists(1) : MarkEnter(t, tweet_ids)
          \/ \E t \in Markers : MarkStep(t)
          \/ \E c \in Clients : ClientStep(c)]_vars
    /\ \A t \in Markers : WF_vars(MarkStep(t))

\* ------------------------------------------------------ properties: LogStore

\* the batches client c was handed so far: those it took and those still queued
History(c) == sse[c].yielded \o queues[c]

\* the places of c's history whose batch names id
WithId(c, id) == {i \in DOMAIN History(c) : id \in Range(History(c)[i])}

\* c's queue was taken out of the subscriber set while c still listens
Dropped(c) == sse[c].pc = "sub" /\ c \notin subscribers

\* C14: whatever the interleaving of the mark_downloaded calls, an id is added by
\* at most one call, only one call returns it as new, the file lists it once, it
\* is in the file exactly when a call added it, a client is handed at most one
\* batch naming it, and exactly one when it was subscribed from the write to the
\* end of the call.
C14_LedgerAtomicity ==
    \A id \in MarkIds :
        /\ added[id] <= 1
        /\ Cardinality({t \in Markers : /\ mk[t].pc = "returned"
                                        /\ id \in Range(mk[t].new_ids)}) <= 1
        /\ Cardinality({i \in DOMAIN ids_file.data : ids_file.data[i] = id}) <= 1
        /\ lock = "free" => (id \in get_downloaded_ids(ids_file) <=> added[id] = 1)
        /\ \A c \in Clients : Cardinality(WithId(c, id)) <= 1
        /\ \A t \in Markers :
              (mk[t].pc = "returned" /\ id \in Range(mk[t].new_ids)) =>
                  \A c \in mk[t].subs \cap subscribers : Cardinality(WithId(c, id)) = 1

\* both threads marked id 1: one call added it, the other found it there
C14_Witness ==
    /\ \A t \in Markers : mk[t].pc = "returned" /\ mk[t].tweet_ids = <<1>>
    /\ mk["m1"].ret + mk["m2"].ret = 1
    /\ ids_file.data = <<1>>
    /\ "c1" \in subscribers
    /\ History("c1") = << <<1>> >>

\* C15: mark_downloaded returns the number of distinct ids of its list that were
\* not in the file before the call; when all were, it returns 0 and adds nothing.
C15_MarkCount ==
    \A t \in Markers :
        mk[t].pc = "returned" =>
            /\ mk[t].ret = Cardinality(Range(mk[t].tweet_ids) \ mk[t].before)
            /\ Range(mk[t].tweet_ids) \subseteq mk[t].before =>
                  (mk[t].ret = 0 /\ mk[t].new_ids = <<>>)

\* C16: no step takes an id out of the id file: whenever a step ends with the lock
\* free, the file lists every id it ever listed.
C16_MonotonicLedger ==
    [][lock' = "free" => ever \subseteq Range(ids_file'.data)]_vars

\* two calls added one id each, the second on top of the first
C16_Witness ==
    /\ \A t \in Markers : mk[t].pc = "returned"
    /\ mk["m1"].new_ids = <<1>>
    /\ mk["m2"].new_ids = <<2>>
    /\ mk["m2"].before = {1}
    /\ ids_file.data = <<1, 2>>

\* C17: whatever was in the id file once is read back after a restart: a process
\* killed inside mark_downloaded loses at most the ids that call was adding.
C17_Durability ==
    lock = "free" => ever \subseteq get_downloaded_ids(ids_file)

\* C18: a mark_downloaded that could not read or write the id file does not end
\* as a success, and the ids stored before are still in the file.
C18_LedgerIOError ==
    \A t \in Markers :
        mk[t].fault =>
            /\ mk[t].pc \notin {"notify", "put", "returned"}
            /\ lock = "free" => ever \subseteq Range(ids_file.data)

\* C19: no batch is empty and no two batches handed to a client name the same id
\* (a call that adds nothing sends nothing); when a call that added ids returns,
\* every client subscribed from its write on and still subscribed was handed
\* exactly one batch with exactly the new ids; and every such call does get there
\* or the client has left or been dropped.
C19_NotificationOnAddition ==
    /\ [](\A c \in Clients :
            /\ \A i \in DOMAIN History(c) : History(c)[i] # <<>>
            /\ \A id \in MarkIds : Cardinality(WithId(c, id)) <= 1)
    /\ [](\A t \in Markers :
            (mk[t].pc = "returned" /\ mk[t].new_ids # <<>>) =>
                \A c \in mk[t].subs \cap subscribers :
                    Cardinality({i \in DOMAIN History(c) :
                                    History(c)[i] = mk[t].new_ids}) = 1)
    /\ \A t \in Markers, c \in Clients :
          (mk[t].pc = "notify" /\ c \in mk[t].subs) ~>
              (c \notin subscribers \/ \E i \in DOMAIN History(c) :
                                            History(c)[i] = mk[t].new_ids)

\* c1 was up to date and has been handed one batch per id, c2 came later and has
\* only the second
C19_Witness ==
    /\ \A t \in Markers : mk[t].pc = "returned"
    /\ mk["m1"].new_ids = <<1>> /\ mk["m1"].subs = {"c1"}
    /\ mk["m2"].new_ids = <<2>> /\ mk["m2"].subs = {"c1", "c2"}
    /\ subscribers = {"c1", "c2"}
    /\ History("c1") = << <<1>>, <<2>> >>
    /\ History("c2") = << <<2>> >>

\* the parts of C20 that do not depend on when a dropped client stops being served
FullSubscriberSafe ==
    /\ \A c \in Clients : Len(queues[c]) <= QueueMaxsize
    /\ \A t \in Markers :
          mk[t].pc = "returned" =>
              /\ mk[t].dead \cap subscribers = {}
              /\ \A c \in mk[t].dead : c \in Clients
              /\ lock = "free" => Range(mk[t].new_ids) \subseteq get_downloaded_ids(ids_file)
              /\ mk[t].new_ids # <<>> =>
                    \A c \in (mk[t].subs \cap subscribers) \ mk[t].dead :
                        \E i \in DOMAIN History(c) : History(c)[i] = mk[t].new_ids

\* every mark_downloaded call that got in returns
MarkCompletes ==
    \A t \in Markers : (mk[t].pc \in {"open", "write", "notify", "put"}) ~> (mk[t].pc = "returned")

\* C20 as stated: mark_downloaded always returns; a client whose queue is full when
\* it is notified is out of the subscriber set when the call returns and is handed
\* no batch from then on; the id file keeps the new ids and the other subscribers
\* get the batch.
C20_FullSubscriber ==
    /\ []FullSubscriberSafe
    /\ [][\A c \in Clients : Dropped(c) => History(c)' = History(c)]_vars
    /\ MarkCompletes

\* C20 as it holds: a dropped client is in no copy of the subscriber set taken
\* after its removal, and is handed a batch only by a call that took its copy
\* before.
C20_FullSubscriberDropped ==
    /\ []FullSubscriberSafe
    /\ [][\A c \in Clients : Dropped(c) =>
              /\ \A t \in Markers : c \in mk'[t].todo => c \in mk[t].todo
              /\ (\A t \in Markers : c \notin mk[t].todo) => History(c)' = History(c)]_vars
    /\ MarkCompletes

\* c1 was behind by a full queue: the call dropped it, kept the id and returned
C20_Witness ==
    /\ mk["m1"].pc = "returned"
    /\ mk["m1"].new_ids = <<1>>
    /\ mk["m1"].dead = {"c1"}
    /\ Dropped("c1")
    /\ Len(queues["c1"]) = QueueMaxsize
    /\ 1 \in get_downloaded_ids(ids_file)
    /\ "c2" \in mk["m1"].subs /\ History("c2") = << <<1>> >>

\* ------------------------- download_user_media, download_direct, history import

\* the files a /media page may yield: two files of tweet 1, one of tweet 2, and
\* one whose name _TWEET_ID_FROM_FILENAME does not match
MediaFiles == {<<1, 1>>, <<1, 2>>, <<2, 1>>, <<NoId, 1>>}

\* the file gallery-dl names after artwork n (its default name, no tweet id in it)
ArtFileOf(n) == <<NoId, n + 1>>

\* _tweet_id_from_filename: the tweet_id field of the name, None when the name
\* does not match
_tweet_id_from_filename(file) == file[1]

\* what gallery-dl may write for a /media page under a filter
MediaWrites(filter) ==
    SUBSET {f \in MediaFiles : _tweet_id_from_filename(f) \notin filter}

\* a download_user_media that notes the tweet id of its first new file only
NewTweetIdsFirstOnly(new_files) ==
    IF new_files # <<>> /\ _tweet_id_from_filename(new_files[1]) # NoId
    THEN <<_tweet_id_from_filename(new_files[1])>> ELSE <<>>

\* download_user_media lines 197-202: one id per new file whose name holds one
NewTweetIds(new_files) ==
    LET named == SelectSeq(new_files, LAMBDA f : _tweet_id_from_filename(f) # NoId)
    IN [i \in 1..Len(named) |-> _tweet_id_from_filename(named[i])]

\* str(path), str(list) and str(bool) as download_direct hands them to SavedFile
StrOfPath(path) == [of |-> "path", file |-> path, len |-> 0, truth |-> FALSE]

StrOfList(paths) == [of |-> "list", file |-> <<NoId, 0>>, len |-> Len(paths), truth |-> FALSE]

StrOfBool(b) == [of |-> "bool", file |-> <<NoId, 0>>, len |-> 0, truth |-> b]

\* download_direct lines 156-164: "for path in new_files" runs over what
\* _download_one returned, the pair (new_files, rc_ok)
SavedFilesDirect(url, returned) ==
    << [source_url |-> url, saved_path |-> StrOfList(returned[1])],
       [source_url |-> url, saved_path |-> StrOfBool(returned[2])] >>

\* download_user_media lines 187-194 and _download_media_page lines 317-343; the
\* file --filter reads holds the ids read from the ledger (lines 328-340)
UserMediaCall(url) ==
    /\ um.pc = "idle"
    /\ um' = [IdleUserMedia EXCEPT !.pc = "run", !.url = url, !.downloaded_ids = ledger,
                                   !.filter = ledger,
                                   !.files_before = dir]
    /\ UNCHANGED <<dd, web, fvars, tvars, lvars, bvars>>

\* _download_media_page lines 345-368: gallery-dl ends, whatever its exit code
UserMediaRun(rc, W) ==
    /\ um.pc = "run"
    /\ W \in MediaWrites(um.filter)
    /\ dir' = dir \cup W
    /\ um' = [um EXCEPT !.pc = "ran", !.returncode = rc]
    /\ UNCHANGED <<ledger, capability, stub_seen, da, result, ncalls, ledger0, fetched, cur,
                   dd, web, tvars, lvars, bvars>>

\* _download_media_page lines 352-355: the timeout becomes RuntimeError
UserMediaTimeout(W) ==
    /\ um.pc = "run"
    /\ W \in MediaWrites(um.filter)
    /\ dir' = dir \cup W
    /\ um' = [um EXCEPT !.pc = "raised", !.exc = "RuntimeError"]
    /\ UNCHANGED <<ledger, capability, stub_seen, da, result, ncalls, ledger0, fetched, cur,
                   dd, web, tvars, lvars, bvars>>

\* _download_media_page lines 370-373 and download_user_media lines 196-212
UserMediaReturn ==
    LET new_files == NewFiles(um.files_before, dir)
        new_tweet_ids == NewTweetIds(new_files)
    IN /\ um.pc = "ran"
       /\ ledger' = IF new_tweet_ids # <<>>
                    THEN MarkDownloaded(ledger, new_tweet_ids) ELSE ledger
       /\ um' = [um EXCEPT !.pc = "returned", !.new_files = new_files,
                           !.new_tweet_ids = new_tweet_ids,
                           !.saved = SavedFiles(um.url, new_files)]
       /\ UNCHANGED <<dir, capability, stub_seen, da, result, ncalls, ledger0, fetched, cur,
                      dd, web, tvars, lvars, bvars>>

UserMediaStep ==
    \/ \E rc \in ReturnCodes, W \in SUBSET MediaFiles : UserMediaRun(rc, W)
    \/ \E W \in SUBSET MediaFiles : UserMediaTimeout(W)
    \/ UserMediaReturn

\* download_direct lines 150-154
DirectCall(urls) ==
    /\ dd.pc = "idle"
    /\ dd' = [IdleDirect EXCEPT !.pc = "loop", !.urls = urls]
    /\ UNCHANGED <<um, web, fvars, tvars, lvars, bvars>>

\* line 155 and _download_one lines 233-252
DirectBeginOne ==
    /\ dd.pc = "loop"
    /\ dd.idx <= Len(dd.urls)
    /\ dd' = [dd EXCEPT !.pc = "run", !.files_before = dir, !.attempt = 1,
                        !.last_returncode = 0]
    /\ UNCHANGED <<um, web, fvars, tvars, lvars, bvars>>

\* _download_one lines 253-285: one run of gallery-dl in the retry loop
DirectRun(rc, W) ==
    /\ dd.pc = "run"
    /\ W \subseteq {ArtFileOf(dd.urls[dd.idx][2])}
    /\ dir' = dir \cup W
    /\ dd' = [dd EXCEPT !.last_returncode = rc,
                        !.attempt = IF ~IsTerminalRc(rc) /\ @ < _MAX_RETRIES THEN @ + 1 ELSE @,
                        !.pc = IF IsTerminalRc(rc) \/ dd.attempt >= _MAX_RETRIES
                               THEN "diff" ELSE "run"]
    /\ UNCHANGED <<ledger, capability, stub_seen, da, result, ncalls, ledger0, fetched, cur,
                   um, web, tvars, lvars, bvars>>

\* _download_one lines 261-264
DirectTimeout(W) ==
    /\ dd.pc = "run"
    /\ W \subseteq {ArtFileOf(dd.urls[dd.idx][2])}
    /\ dir' = dir \cup W
    /\ dd' = [dd EXCEPT !.pc = "raised", !.exc = "RuntimeError"]
    /\ UNCHANGED <<ledger, capability, stub_seen, da, result, ncalls, ledger0, fetched, cur,
                   um, web, tvars, lvars, bvars>>

\* _download_one lines 290-296 and download_direct lines 156-164
DirectDiff ==
    LET new_files == NewFiles(dd.files_before, dir)
        returned == <<new_files, IsTerminalRc(dd.last_returncode)>>
    IN /\ dd.pc = "diff"
       /\ dd' = [dd EXCEPT !.pc = "loop", !.idx = @ + 1, !.files_before = {},
                           !.saved = @ \o SavedFilesDirect(dd.urls[dd.idx], returned),
                           !.made = Append(@, new_files)]
       /\ UNCHANGED <<um, web, fvars, tvars, lvars, bvars>>

\* line 171
DirectReturn ==
    /\ dd.pc = "loop"
    /\ dd.idx > Len(dd.urls)
    /\ dd' = [dd EXCEPT !.pc = "returned"]
    /\ UNCHANGED <<um, web, fvars, tvars, lvars, bvars>>

DirectStep ==
    \/ DirectBeginOne
    \/ \E rc \in ReturnCodes, W \in SUBSET {ArtFileOf(1), ArtFileOf(2)} : DirectRun(rc, W)
    \/ \E W \in SUBSET {ArtFileOf(1), ArtFileOf(2)} : DirectTimeout(W)
    \/ DirectDiff
    \/ DirectReturn

\* api_history_import lines 2120-2142: no tweet id in the body is answered 400,
\* otherwise the ids go to mark_downloaded and the count comes back
ApiHistoryImport(tweet_ids) ==
    /\ web.nreq < MaxRequests
    /\ ledger' = IF tweet_ids = <<>> THEN ledger ELSE MarkDownloaded(ledger, tweet_ids)
    /\ web' = [IdleWeb EXCEPT !.nreq = web.nreq + 1, !.op = "api_history_import",
                               !.status = IF tweet_ids = <<>> THEN 400 ELSE 200,
                               !.imported = Len(NewIds(ledger, tweet_ids))]
    /\ UNCHANGED <<dir, capability, stub_seen, da, result, ncalls, ledger0, fetched, cur,
                   um, dd, tvars, lvars, bvars>>

\* download_user_media alone, with a history import arriving at any moment
SpecUserMedia ==
    /\ InitFetch("any")
    /\ [][\/ UserMediaCall(<<"media", 1>>)
          \/ UserMediaStep
          \/ \E ids \in IdLists(MaxIdList) : ApiHistoryImport(ids)]_vars

\* download_direct alone
SpecDirect ==
    /\ InitFetch("any")
    /\ [][\/ \E urls \in UrlLists({<<"pixiv", 1>>, <<"pixiv", 2>>}, MaxDirectUrls) : DirectCall(urls)
          \/ DirectStep]_vars

\* the frames in use: a call in progress, or one whose result was not taken yet
Busy ==
    {c \in Callers : da[c].pc # "idle"}
      \cup (IF um.pc # "idle" THEN {"download_user_media"} ELSE {})
      \cup (IF dd.pc # "idle" THEN {"download_direct"} ELSE {})
      \cup (IF th.pc # "idle" THEN {"get_thread"} ELSE {})

\* the caller has taken the result (or the exception): the frame is gone
ForgetDownloadAll(c) ==
    /\ da[c].pc \in {"returned", "raised"}
    /\ da' = [da EXCEPT ![c] = IdleFrame]
    /\ result' = [result EXCEPT ![c] = <<>>]
    /\ ncalls' = [ncalls EXCEPT ![c] = 0]
    /\ ledger0' = [ledger0 EXCEPT ![c] = {}]
    /\ fetched' = [fetched EXCEPT ![c] = <<>>]
    /\ cur' = [cur EXCEPT ![c] = NoRun]
    /\ UNCHANGED <<ledger, dir, capability, stub_seen, tvars, lvars, ovars, bvars>>

ForgetUserMedia ==
    /\ um.pc \in {"returned", "raised"}
    /\ um' = IdleUserMedia
    /\ UNCHANGED <<dd, web, fvars, tvars, lvars, bvars>>

ForgetDirect ==
    /\ dd.pc \in {"returned", "raised"}
    /\ dd' = IdleDirect
    /\ UNCHANGED <<um, web, fvars, tvars, lvars, bvars>>

ForgetThread ==
    /\ th.pc \in {"done", "raised"}
    /\ th' = IdleThread
    /\ meta' = <<>>
    /\ fetches' = <<>>
    /\ UNCHANGED <<env, fvars, lvars, ovars, bvars>>

\* the inputs of the archive run: a status URL, a URL without a tweet id, one
\* artwork, and import bodies with no id, a marked id and a new id
\* Every operation that reaches the id set or runs beside those that do: the
\* three entry points of MediaDownloader and get_thread on a short reply chain
\* (where neither the depth bound nor a repeated tweet ends the walk), one call
\* at a time, and the history import at any moment.
InitOwner ==
    /\ ledger \in {{}, {1}}
    /\ dir = {}
    /\ capability = "any"
    /\ stub_seen = {}
    /\ da = [c \in Callers |-> IdleFrame]
    /\ result = [c \in Callers |-> <<>>]
    /\ ncalls = [c \in Callers |-> 0]
    /\ ledger0 = [c \in Callers |-> {}]
    /\ fetched = [c \in Callers |-> <<>>]
    /\ cur = [c \in Callers |-> NoRun]
    /\ env \in {[kind |-> "chain", len |-> n, stranger |-> 0] : n \in 1..2}
    /\ th = IdleThread
    /\ meta = <<>>
    /\ fetches = <<>>
    /\ InitLogStoreIdle
    /\ InitOrchestratorIdle
    /\ InitBotState({0}, {<< <<"i", 1>> >>}, {{}})

SpecOwner ==
    /\ InitOwner
    /\ [][\/ \E urls \in {<< <<"i", 1>> >>, << <<"media", 1>> >>} :
                Busy = {} /\ Call("handler", urls)
          \/ Step("handler")
          \/ ForgetDownloadAll("handler")
          \/ Busy = {} /\ UserMediaCall(<<"media", 1>>)
          \/ UserMediaStep
          \/ ForgetUserMedia
          \/ Busy = {} /\ DirectCall(<< <<"pixiv", 1>> >>)
          \/ DirectStep
          \/ ForgetDirect
          \/ \E ids \in {<<>>, <<1>>, <<2>>} : ApiHistoryImport(ids)
          \/ Busy = {} /\ GetThread(<<"user", env.len>>)
          \/ \E rc \in ReturnCodes, stdout \in Stdouts(_extract_tweet_id(th.url)) :
                Collect(rc, stdout)
          \/ ForgetThread]_vars

\* ---------------- properties: download_user_media, download_direct, the writers

\* the records download_direct is to return: one per new file of each URL
RECURSIVE ExpectedDirect(_, _)
ExpectedDirect(urls, made) ==
    IF made = <<>> THEN <<>>
    ELSE [i \in 1..Len(made[1]) |->
             [source_url |-> urls[1], saved_path |-> StrOfPath(made[1][i])]]
           \o ExpectedDirect(Tail(urls), Tail(made))

\* the step is a download_all that has run gallery-dl for a URL and now diffs
DiffStep(c) == da[c].pc = "diff" /\ da'[c].pc = "loop" /\ cur[c].attempts >= 1

UserMediaReturnStep == um.pc = "ran" /\ um'.pc = "returned"

ImportStep == web'.nreq = web.nreq + 1 /\ web'.op = "api_history_import"

\* no step of get_thread changes the id set, and whatever download_all or
\* download_user_media adds comes from the fetch it has just made
FetchedIdsOnly ==
    /\ th' # th => ledger' = ledger
    /\ \A c \in Callers :
          DiffStep(c) =>
              /\ ledger' \ ledger \subseteq {_tweet_id_from_url(da[c].pending[da[c].idx])}
              /\ NoId \notin ledger'
    /\ UserMediaReturnStep =>
          ledger' \ ledger \subseteq
              {_tweet_id_from_filename(f) : f \in dir \ um.files_before} \ {NoId}

C24_DirectDiff ==
    /\ [](dd.pc = "returned" => dd.saved = ExpectedDirect(dd.urls, dd.made))
    /\ [][dd' # dd => ledger' = ledger]_vars

\* C25: the filter handed to gallery-dl is the id set read at the start of the
\* call, and at the return every id named by a new file is in the id set.
C25_UserMediaPage ==
    /\ um.pc # "idle" => um.filter = um.downloaded_ids
    /\ um.pc = "returned" =>
          /\ um.new_files = NewFiles(um.files_before, dir)
          /\ \A i \in DOMAIN um.new_files :
                _tweet_id_from_filename(um.new_files[i]) # NoId =>
                    _tweet_id_from_filename(um.new_files[i]) \in ledger

\* tweet 1 was known and filtered out; the page gave one file of tweet 2 and
\* one whose name holds no id
C25_Witness ==
    /\ um.pc = "returned"
    /\ um.filter = {1}
    /\ Len(um.new_files) = 2
    /\ um.new_tweet_ids = <<2>>
    /\ ledger = {1, 2}

\* ------------------------------------------------- Discord bot and scheduler
\* Every call the bot hands to the executor is one of download_user_media,
\* download_direct, get_thread and download_all, whose own steps are the
\* actions above; the bot sees of a call only whether it raised and what it
\* returned, so here a call in flight ends with one of its possible results.

_REACTION_PROCESSING == "processing"

_REACTION_OK == "ok"

_REACTION_ERROR == "error"

_REACTION_SKIPPED == "skipped"

\* the URLs handed to /api/queue, one of each kind
BotUrls == {<<"i", 1>>, <<"media", 1>>, <<"pixiv", 1>>}

\* the branch of lines 136, 144, 152 (and 276, 282, 290) a URL takes
KindOf(url) ==
    IF url[1] = "media" THEN "media" ELSE IF url[1] = "pixiv" THEN "direct" ELSE "status"

\* lines 49-54: /media URLs first, then status URLs, then Pixiv and Imgur
_find_media_urls(text) ==
    SelectSeq(text, LAMBDA u : KindOf(u) = "media")
    \o SelectSeq(text, LAMBDA u : KindOf(u) = "status")
    \o SelectSeq(text, LAMBDA u : KindOf(u) = "direct")

\* the function a URL of each kind is first handed to
FirstCall(url) ==
    CASE KindOf(url) = "media" -> "download_user_media"
      [] KindOf(url) = "direct" -> "download_direct"
      [] OTHER -> "get_thread"

\* lines 137, 145, 153, 159, 277, 283, 291, 297: loop.run_in_executor(None, fn, ...)
RunsOnLoop(fn) == "loop"

RunsOn(fn) == "executor"

\* what a call may give back: it raised, or it returned; a call reports no
\* file or one as saved, and download_direct returns the records that
\* SavedFilesDirect builds, whatever the directory gained ("made" is the number
\* of files it really wrote, which the bot does not see)
Outcomes(fn, url, thread) ==
    {[NoOut EXCEPT !.raised = TRUE]} \cup
    CASE fn = "download_user_media" -> {[NoOut EXCEPT !.files = f] : f \in {0, 1}}
      [] fn = "download_direct" ->
            {[NoOut EXCEPT !.files = Len(SavedFilesDirect(url, <<nf, ok>>)),
                           !.made = Len(nf)] :
                nf \in {<<>>, <<ArtFileOf(1)>>}, ok \in BOOLEAN}
      [] fn = "get_thread" -> {[NoOut EXCEPT !.thread = n] : n \in 0..MaxThreadUrls}
      [] OTHER ->
            {o \in {[NoOut EXCEPT !.files = f, !.skipped = k] :
                        f \in {0, 1}, k \in 0..thread} :
                o.skipped = thread => o.files = 0}

\* lines 175 and 307: "except Exception" takes whatever the call raised
CaughtNothing(out) == FALSE

Caught(out) == out.raised

\* lines 156 and 294: "if not thread.tweet_urls"
EmptyThreadNever(n) == FALSE

EmptyThread(n) == n = 0

\* _append_log lines 43-49
AppendLog(logs, entry) ==
    LET l == Append(logs, entry)
    IN IF Len(l) > _MAX_LOG_ENTRIES
       THEN SubSeq(l, Len(l) - _MAX_LOG_ENTRIES + 1, Len(l)) ELSE l

\* append_success lines 53-67 and append_failure lines 69-83
MessageEntry(status, message_id, file_count) ==
    [status |-> status, key |-> <<"message", message_id>>, file_count |-> file_count]

\* append_api_success(url, file_count) and append_api_failure(url, error): an
\* entry of the download log for a URL that came without a message
ApiEntry(status, url, file_count) ==
    [status |-> status, key |-> url, file_count |-> file_count]

\* mark_downloaded_url(url): the URL joins the URLs recorded as downloaded
MarkDownloadedUrl(urls, url) == urls \cup {url}

\* lines 123-132; add_reaction (line 126) may raise, and nothing catches it here
ProcessBegin(t, m, reacted) ==
    /\ reactions' = IF reacted THEN [reactions EXCEPT ![m] = @ \cup {_REACTION_PROCESSING}]
                    ELSE reactions
    /\ pm' = [pm EXCEPT ![t] =
                IF reacted
                THEN [IdlePm EXCEPT !.pc = "loop", !.msg = m,
                                    !.urls = _find_media_urls(content[m])]
                ELSE [IdlePm EXCEPT !.pc = "raised", !.msg = m]]

\* on_message lines 94-101; like every step of a coroutine it runs on the
\* event loop's thread, so only while that thread is free
OnMessage(t, reacted) ==
    /\ loop = "free"
    /\ pm[t].pc = "idle"
    /\ _find_media_urls(content[IF t = "ev1" THEN 1 ELSE 2]) # <<>>
    /\ ProcessBegin(t, IF t = "ev1" THEN 1 ELSE 2, reacted)
    /\ UNCHANGED <<content, retry_queue, api_queue, dlog, done_urls, sched, loop, enq,
                   fvars, tvars, lvars, ovars>>

\* lines 134-153: the next URL goes to the executor and the coroutine awaits
PmDispatch(t) ==
    LET f == pm[t] IN
    /\ loop = "free"
    /\ f.pc = "loop"
    /\ f.idx <= Len(f.urls)
    /\ pm' = [pm EXCEPT ![t].pc = "await", ![t].fn = FirstCall(f.urls[f.idx]),
                        ![t].thread = 0]
    /\ loop' = IF RunsOn(FirstCall(f.urls[f.idx])) = "executor" THEN loop ELSE t
    /\ UNCHANGED <<content, reactions, retry_queue, api_queue, dlog, done_urls, sched, enq,
                   fvars, tvars, lvars, ovars>>

\* lines 140-177: the call ends with "out" and the loop body goes on with it
PmResume(t, out) ==
    LET f == pm[t]
        url == f.urls[f.idx]
        next == [f EXCEPT !.pc = "loop", !.idx = @ + 1, !.fn = None]
        note(fetch, error) ==
            [url |-> url, fetch |-> fetch, error |-> error,
             empty |-> f.fn = "get_thread" /\ ~out.raised /\ out.thread = 0,
             files |-> IF out.raised THEN 0 ELSE out.files,
             dup |-> f.fn = "download_all" /\ ~out.raised /\ out.skipped = f.thread,
             nofile |-> f.fn = "download_direct" /\ ~out.raised /\ out.made = 0]
        failed == [next EXCEPT !.errors = Append(@, url),
                               !.seen = Append(@, note(f.fn # "get_thread", TRUE))]
        saved(fetch) == [next EXCEPT !.total_files = @ + out.files,
                                     !.seen = Append(@, note(fetch, FALSE))]
    IN
    /\ loop \in {"free", t}
    /\ f.pc = "await"
    /\ out \in Outcomes(f.fn, url, f.thread)
    /\ pm' = [pm EXCEPT ![t] =
         CASE Caught(out) -> failed
           [] out.raised -> [f EXCEPT !.pc = "raised"]
           [] f.fn = "download_user_media" -> saved(TRUE)
           [] f.fn = "download_direct" -> IF out.files = 0 THEN failed ELSE saved(TRUE)
           [] f.fn = "get_thread" ->
                IF EmptyThread(out.thread) THEN saved(FALSE)
                ELSE [f EXCEPT !.pc = "await", !.fn = "download_all",
                               !.thread = out.thread]
           [] OTHER ->
                IF out.skipped = f.thread
                THEN [next EXCEPT !.all_duplicate_skipped_urls = @ + 1,
                                  !.seen = Append(@, note(TRUE, FALSE))]
                ELSE IF out.files = 0 THEN failed ELSE saved(TRUE)]
    /\ loop' = IF ~out.raised /\ f.fn = "get_thread" /\ ~EmptyThread(out.thread)
                  /\ RunsOn("download_all") # "executor"
               THEN t ELSE "free"
    /\ UNCHANGED <<content, reactions, retry_queue, api_queue, dlog, done_urls, sched, enq,
                   fvars, tvars, lvars, ovars>>

\* an outcome that is never "skipped"
OutcomeOfNoSkip(errors, total_files, all_duplicate_skipped_urls) ==
    IF errors # <<>> THEN _REACTION_ERROR ELSE _REACTION_OK

\* lines 184, 190, 205: the three ways a message ends
OutcomeOf(errors, total_files, all_duplicate_skipped_urls) ==
    IF errors # <<>> THEN _REACTION_ERROR
    ELSE IF total_files = 0 /\ all_duplicate_skipped_urls > 0
         THEN _REACTION_SKIPPED ELSE _REACTION_OK

\* lines 179-215; "removed" tells whether remove_reaction went through, "reacted"
\* whether the add_reaction of the outcome did: when it raises, the entry of
\* the log is not written
PmFinish(t, removed, reacted) ==
    LET f == pm[t]
        m == f.msg
        gone == IF removed THEN {_REACTION_PROCESSING} ELSE {}
        outcome == OutcomeOf(f.errors, f.total_files, f.all_duplicate_skipped_urls)
        cleared == IF outcome = _REACTION_ERROR THEN {} ELSE {_REACTION_ERROR}
    IN
    /\ loop = "free"
    /\ f.pc = "loop"
    /\ f.idx > Len(f.urls)
    /\ reactions' = [reactions EXCEPT ![m] =
                        IF reacted THEN ((@ \ gone) \ cleared) \cup {outcome}
                        ELSE (@ \ gone) \ cleared]
    /\ dlog' = IF ~reacted THEN dlog
               ELSE IF outcome = _REACTION_ERROR
                    THEN AppendLog(dlog, MessageEntry("failure", m, 0))
                    ELSE AppendLog(dlog, MessageEntry("success", m, f.total_files))
    /\ pm' = [pm EXCEPT ![t].pc = IF reacted THEN "done" ELSE "raised"]
    /\ UNCHANGED <<content, retry_queue, api_queue, done_urls, sched, loop, enq,
                   fvars, tvars, lvars, ovars>>

\* a test that finds no key in any queue
AlreadyQueuedNever(queue, key) == FALSE

\* queue_retry lines 112-115 and queue_url_download line 208: the key is in the
\* queue that was read
AlreadyQueued(queue, key) == key \in Range(queue)

\* retry lines 1980-1984 and queue_retry lines 109-117
QueueRetry(m) ==
    LET pending == AlreadyQueued(retry_queue, m) IN
    /\ web.nreq < MaxEnqueues
    /\ retry_queue' = IF pending THEN retry_queue ELSE Append(retry_queue, m)
    /\ enq' = IF pending THEN enq ELSE [enq EXCEPT ![m] = @ + 1]
    /\ web' = [IdleWeb EXCEPT !.nreq = web.nreq + 1, !.op = "retry", !.status = 302]
    /\ UNCHANGED <<content, reactions, api_queue, dlog, done_urls, sched, pm, loop,
                   um, dd, fvars, tvars, lvars>>

\* api_queue lines 2020-2035 and queue_url_download lines 204-213
QueueUrlDownload(url) ==
    /\ web.nreq < MaxEnqueues
    /\ api_queue' = IF AlreadyQueued(api_queue, url) THEN api_queue
                    ELSE Append(api_queue, url)
    /\ web' = [IdleWeb EXCEPT !.nreq = web.nreq + 1, !.op = "api_queue", !.status = 202]
    /\ UNCHANGED <<content, reactions, retry_queue, dlog, done_urls, sched, pm, loop, enq,
                   um, dd, fvars, tvars, lvars>>

\* queue_retry lines 110-111 and queue_url_download lines 206-207, step by
\* step: the web thread takes the lock and reads the queue file
EnqueueRead(op, key) ==
    /\ web.pc = "idle"
    /\ web.nreq < MaxEnqueues
    /\ CanEnter(lock)
    /\ lock' = "web"
    /\ web' = [web EXCEPT !.pc = "locked", !.op = op, !.key = key, !.status = 0,
                          !.local = IF op = "retry" THEN retry_queue ELSE api_queue]
    /\ UNCHANGED <<um, dd, ids_file, subscribers, queues, mk, sse, added, ever,
                   fvars, tvars, bvars>>

\* queue_retry lines 112-117 and queue_url_download lines 208-213: a key not in
\* the queue that was read is appended and the file written; the lock is let
\* go and the request answered ("put" keeps the URLs that were appended)
EnqueueWrite ==
    LET new == ~AlreadyQueued(web.local, web.key) IN
    /\ web.pc = "locked"
    /\ retry_queue' = IF web.op = "retry" /\ new
                      THEN Append(web.local, web.key) ELSE retry_queue
    /\ api_queue' = IF web.op = "api_queue" /\ new
                    THEN Append(web.local, web.key) ELSE api_queue
    /\ enq' = IF web.op = "retry" /\ new THEN [enq EXCEPT ![web.key] = @ + 1] ELSE enq
    /\ web' = [web EXCEPT !.pc = "idle", !.nreq = @ + 1, !.local = <<>>,
                          !.status = IF web.op = "retry" THEN 302 ELSE 202,
                          !.put = IF web.op = "api_queue" /\ new
                                  THEN Append(@, web.key) ELSE @]
    /\ lock' = "free"
    /\ UNCHANGED <<content, reactions, dlog, done_urls, sched, pm, loop,
                   um, dd, ids_file, subscribers, queues, mk, sse, added, ever,
                   fvars, tvars>>

\* pop_retry_queue lines 120-121 (line 232) and pop_api_queue lines 216-217
\* (line 258), step by step: the scheduler takes the lock and reads the file
PopRead(kind) ==
    /\ loop = "free"
    /\ IF kind = "retry" THEN sched.pc = "pop"
       ELSE sched.pc = "retry" /\ sched.qidx > Len(sched.queued)
    /\ CanEnter(lock)
    /\ lock' = "sched"
    /\ sched' = IF kind = "retry"
                THEN [sched EXCEPT !.pc = "pop_locked", !.queued = retry_queue, !.qidx = 1]
                ELSE [sched EXCEPT !.pc = "api_locked", !.queued = <<>>, !.qidx = 1,
                                   !.exc = None, !.urls = api_queue, !.uidx = 1,
                                   !.handled = <<>>]
    /\ UNCHANGED <<content, reactions, retry_queue, api_queue, dlog, done_urls, pm, loop,
                   enq, ids_file, subscribers, queues, mk, sse, added, ever,
                   fvars, tvars, ovars>>

\* pop_retry_queue lines 122-125 and pop_api_queue lines 218-221: a queue that
\* was read non-empty is written back empty, the lock is let go and what was
\* read is returned ("taken" keeps all that the pops returned)
PopWrite ==
    /\ sched.pc \in {"pop_locked", "api_locked"}
    /\ retry_queue' = IF sched.pc = "pop_locked" /\ sched.queued # <<>>
                      THEN <<>> ELSE retry_queue
    /\ api_queue' = IF sched.pc = "api_locked" /\ sched.urls # <<>>
                    THEN <<>> ELSE api_queue
    /\ sched' = IF sched.pc = "pop_locked"
                THEN [sched EXCEPT !.pc = "retry", !.taken.retry = @ \o sched.queued]
                ELSE [sched EXCEPT !.pc = IF sched.urls = <<>> THEN "sleep" ELSE "api",
                                   !.taken.api = @ \o sched.urls]
    /\ lock' = "free"
    /\ UNCHANGED <<content, reactions, dlog, done_urls, pm, loop, enq,
                   ids_file, subscribers, queues, mk, sse, added, ever,
                   fvars, tvars, ovars>>

\* _retry_queue_task lines 222-230: the sleep ends; "elapsed" tells whether
\* scan_interval seconds went by since the last scan. _scan_pending_messages
\* lines 110-118: channel.history hands the messages over newest first, each
\* with the reactions it carried when it was read
SchedWake(elapsed) ==
    LET scanning == sched.scan_interval > 0 /\ elapsed
        candidates ==
            SelectSeq(<<2, 1>>,
                      LAMBDA m : /\ _REACTION_OK \notin reactions[m]
                                 /\ _REACTION_SKIPPED \notin reactions[m]
                                 /\ _find_media_urls(content[m]) # <<>>)
    IN
    /\ loop = "free"
    /\ sched.pc = "sleep"
    /\ scanning => sched.scans < MaxScans
    /\ sched' = IF scanning
                THEN [sched EXCEPT !.pc = "scan", !.scans = @ + 1, !.scan = candidates]
                ELSE [sched EXCEPT !.pc = "pop"]
    /\ UNCHANGED <<content, reactions, retry_queue, api_queue, dlog, done_urls, pm, loop, enq,
                   fvars, tvars, lvars, ovars>>

\* _scan_pending_messages line 120
SchedScanItem(reacted) ==
    /\ loop = "free"
    /\ sched.pc = "scan"
    /\ sched.scan # <<>>
    /\ ProcessBegin("sched", Head(sched.scan), reacted)
    /\ sched' = [sched EXCEPT !.pc = "scan_pm"]
    /\ UNCHANGED <<content, retry_queue, api_queue, dlog, done_urls, loop, enq,
                   fvars, tvars, lvars, ovars>>

\* line 120 returns, or raises what _process_message raised: lines 225-230
\* catch nothing, and the task of _retry_queue_task ends with it
SchedScanNext ==
    /\ loop = "free"
    /\ sched.pc = "scan_pm"
    /\ pm["sched"].pc \in {"done", "raised"}
    /\ sched' = IF pm["sched"].pc = "done"
                THEN [sched EXCEPT !.pc = "scan", !.scan = Tail(@)]
                ELSE [sched EXCEPT !.pc = "dead", !.exc = "HTTPException"]
    /\ pm' = [pm EXCEPT !["sched"] = IdlePm]
    /\ UNCHANGED <<content, reactions, retry_queue, api_queue, dlog, done_urls, loop, enq,
                   fvars, tvars, lvars, ovars>>

SchedScanEnd ==
    /\ loop = "free"
    /\ sched.pc = "scan"
    /\ sched.scan = <<>>
    /\ sched' = [sched EXCEPT !.pc = "pop"]
    /\ UNCHANGED <<content, reactions, retry_queue, api_queue, dlog, done_urls, pm, loop, enq,
                   fvars, tvars, lvars, ovars>>

\* pop_retry_queue lines 122-124: what the file holds once the queue was read
AfterPopKept(queue) == queue

AfterPop(queue) == <<>>

\* line 232 and pop_retry_queue lines 119-125
SchedPopRetry ==
    /\ loop = "free"
    /\ sched.pc = "pop"
    /\ retry_queue' = AfterPop(retry_queue)
    /\ sched' = [sched EXCEPT !.pc = "retry", !.queued = retry_queue, !.qidx = 1]
    /\ UNCHANGED <<content, reactions, api_queue, dlog, done_urls, pm, loop, enq,
                   fvars, tvars, lvars, ovars>>

\* lines 234-240 (no channel), 245-249 (no message), 250-251 (fetch_message failed)
SchedRetrySkip(why) ==
    /\ loop = "free"
    /\ sched.pc = "retry"
    /\ sched.qidx <= Len(sched.queued)
    /\ sched' = [sched EXCEPT !.qidx = @ + 1, !.exc = why]
    /\ UNCHANGED <<content, reactions, retry_queue, api_queue, dlog, done_urls, pm, loop, enq,
                   fvars, tvars, lvars, ovars>>

\* lines 242-244
SchedRetryItem(reacted) ==
    LET m == sched.queued[sched.qidx] IN
    /\ loop = "free"
    /\ sched.pc = "retry"
    /\ sched.qidx <= Len(sched.queued)
    /\ ProcessBegin("sched", m, reacted)
    /\ sched' = [sched EXCEPT !.pc = "retry_pm", !.runs[m] = @ + 1, !.exc = None]
    /\ UNCHANGED <<content, retry_queue, api_queue, dlog, done_urls, loop, enq,
                   fvars, tvars, lvars, ovars>>

\* line 244 returns, or lines 250-251 take what _process_message raised
SchedRetryNext ==
    /\ loop = "free"
    /\ sched.pc = "retry_pm"
    /\ pm["sched"].pc \in {"done", "raised"}
    /\ sched' = [sched EXCEPT !.pc = "retry", !.qidx = @ + 1,
                              !.exc = IF pm["sched"].pc = "raised" THEN "Exception" ELSE None]
    /\ pm' = [pm EXCEPT !["sched"] = IdlePm]
    /\ UNCHANGED <<content, reactions, retry_queue, api_queue, dlog, done_urls, loop, enq,
                   fvars, tvars, lvars, ovars>>

\* line 254, _process_api_queue lines 258-262 and pop_api_queue lines 215-221
SchedPopApi ==
    /\ loop = "free"
    /\ sched.pc = "retry"
    /\ sched.qidx > Len(sched.queued)
    /\ api_queue' = <<>>
    /\ sched' = [sched EXCEPT !.pc = IF api_queue = <<>> THEN "sleep" ELSE "api",
                              !.queued = <<>>, !.qidx = 1, !.exc = None,
                              !.urls = api_queue, !.uidx = 1, !.handled = <<>>]
    /\ UNCHANGED <<content, reactions, retry_queue, dlog, done_urls, pm, loop, enq,
                   fvars, tvars, lvars, ovars>>

\* _process_api_queue lines 263-264 and _download_url_direct lines 274-293
UdDispatch ==
    LET url == sched.urls[sched.uidx] IN
    /\ loop = "free"
    /\ sched.pc = "api"
    /\ sched.uidx <= Len(sched.urls)
    /\ sched' = [sched EXCEPT !.pc = "api_await", !.fn = FirstCall(url), !.thread = 0]
    /\ loop' = IF RunsOn(FirstCall(url)) = "executor" THEN loop ELSE "sched"
    /\ UNCHANGED <<content, reactions, retry_queue, api_queue, dlog, done_urls, pm, enq,
                   fvars, tvars, lvars, ovars>>

\* _download_url_direct lines 280-309: the call ends with "out"
UdResume(out) ==
    LET url == sched.urls[sched.uidx]
        fn == sched.fn
        next(fetch, entry) ==
            [sched EXCEPT !.pc = "api", !.uidx = @ + 1, !.fn = None,
                          !.thread = 0,
                          !.handled =
                              Append(@, [url |-> url, fetch |-> fetch, entry |-> entry,
                                         empty |-> fn = "get_thread" /\ ~out.raised
                                                   /\ out.thread = 0])]
        again == ~out.raised /\ fn = "get_thread" /\ ~EmptyThread(out.thread)
    IN
    /\ loop \in {"free", "sched"}
    /\ sched.pc = "api_await"
    /\ out \in Outcomes(fn, url, sched.thread)
    /\ sched' =
         CASE Caught(out) -> next(fn # "get_thread", "failure")
           [] out.raised -> [sched EXCEPT !.pc = "dead", !.exc = "Exception"]
           [] fn = "get_thread" ->
                IF EmptyThread(out.thread) THEN next(FALSE, "none")
                ELSE [sched EXCEPT !.pc = "api_await", !.fn = "download_all",
                                   !.thread = out.thread]
           [] OTHER -> next(TRUE, "success")
    /\ dlog' =
         CASE Caught(out) -> AppendLog(dlog, ApiEntry("failure", url, 0))
           [] out.raised \/ fn = "get_thread" -> dlog
           [] OTHER -> AppendLog(dlog, ApiEntry("success", url, out.files))
    /\ done_urls' = IF ~out.raised /\ fn = "download_direct"
                    THEN MarkDownloadedUrl(done_urls, url) ELSE done_urls
    /\ loop' = IF again /\ RunsOn("download_all") # "executor" THEN "sched" ELSE "free"
    /\ UNCHANGED <<content, reactions, retry_queue, api_queue, pm, enq,
                   fvars, tvars, lvars, ovars>>

\* _process_api_queue returns and the loop of line 221 goes round
SchedTickEnd ==
    /\ loop = "free"
    /\ sched.pc = "api"
    /\ sched.uidx > Len(sched.urls)
    /\ sched' = [sched EXCEPT !.pc = "sleep"]
    /\ UNCHANGED <<content, reactions, retry_queue, api_queue, dlog, done_urls, pm, loop, enq,
                   fvars, tvars, lvars, ovars>>

AllOutcomes ==
    UNION {Outcomes(fn, url, n) :
             fn \in {"download_user_media", "download_direct", "get_thread", "download_all"},
             url \in BotUrls, n \in 0..MaxThreadUrls}

PmStep(t) ==
    \/ PmDispatch(t)
    \/ \E out \in AllOutcomes : PmResume(t, out)
    \/ \E removed \in BOOLEAN, reacted \in BOOLEAN : PmFinish(t, removed, reacted)

\* the whole program before any event, the bot as InitBotState has it
InitBot(intervals, texts, marksets) ==
    /\ InitFetchIdle
    /\ InitThreadIdle
    /\ InitLogStoreIdle
    /\ InitOrchestratorIdle
    /\ InitBotState(intervals, texts, marksets)

\* the scheduler as configured by default (no periodic scan), with the web
\* server filling its two queues; message 1 holds any of four texts
SpecSched ==
    /\ InitBot({0},
               {<< <<"i", 1>> >>, << <<"media", 1>> >>, << <<"pixiv", 1>> >>,
                << <<"i", 1>>, <<"media", 1>> >>},
               SUBSET {_REACTION_ERROR})
    /\ [][\/ \E elapsed \in BOOLEAN : SchedWake(elapsed)
          \/ SchedPopRetry
          \/ SchedPopApi
          \/ \E why \in {"no channel", "NotFound", "Exception"} : SchedRetrySkip(why)
          \/ \E reacted \in BOOLEAN : SchedRetryItem(reacted)
          \/ SchedRetryNext
          \/ PmStep("sched")
          \/ \E m \in Msgs : QueueRetry(m)
          \/ UdDispatch
          \/ \E out \in AllOutcomes : UdResume(out)
          \/ SchedTickEnd
          \/ \E url \in BotUrls : QueueUrlDownload(url)]_vars

\* the scheduler with the periodic scan switched on
SpecScan ==
    /\ InitBot({1}, {<< <<"i", 1>> >>}, SUBSET {_REACTION_ERROR})
    /\ [][\/ \E elapsed \in BOOLEAN : SchedWake(elapsed)
          \/ SchedPopRetry
          \/ SchedPopApi
          \/ \E reacted \in BOOLEAN : SchedScanItem(reacted)
          \/ SchedScanNext
          \/ SchedScanEnd
          \/ \E why \in {"no channel", "NotFound", "Exception"} : SchedRetrySkip(why)
          \/ \E reacted \in BOOLEAN : SchedRetryItem(reacted)
          \/ SchedRetryNext
          \/ PmStep("sched")
          \/ \E m \in Msgs : QueueRetry(m)
          \/ UdDispatch
          \/ \E out \in AllOutcomes : UdResume(out)
          \/ SchedTickEnd
          \/ \E url \in BotUrls : QueueUrlDownload(url)]_vars

\* one message with a status URL through the event handler, with the real
\* get_thread and download_all behind its two calls: _process_message lines
\* 153-161 hand the URL to get_thread and the tweet URLs it returns to
\* download_all, and take what each call gives back (gallery-dl answers for a
\* fixed reply chain and does not time out while the thread is resolved)
SpecArchive ==
    /\ InitOwner
    /\ [][\/ \E t \in {"ev1", "ev2"}, reacted \in BOOLEAN :
                (\A u \in Tasks : pm[u].pc = "idle") /\ OnMessage(t, reacted)
          \/ \E t \in {"ev1", "ev2"} : PmDispatch(t)
          \/ \E t \in {"ev1", "ev2"} :
                /\ pm[t].pc = "await" /\ pm[t].fn = "get_thread"
                /\ GetThread(pm[t].urls[pm[t].idx])
          \/ \E rc \in ReturnCodes, stdout \in Stdouts(_extract_tweet_id(th.url)) :
                Collect(rc, stdout)
          \/ \E t \in {"ev1", "ev2"} :
                /\ pm[t].fn = "get_thread"
                /\ th.pc = "done"
                /\ PmResume(t, [NoOut EXCEPT !.thread = Len(th.tweet_urls)])
          \/ \E t \in {"ev1", "ev2"} :
                /\ pm[t].pc = "await" /\ pm[t].fn = "download_all"
                /\ Call("handler", th.tweet_urls)
          \/ Step("handler")
          \/ \E t \in {"ev1", "ev2"} :
                /\ pm[t].fn = "download_all"
                /\ da["handler"].pc \in {"returned", "raised"}
                /\ PmResume(t, IF da["handler"].pc = "raised"
                               THEN [NoOut EXCEPT !.raised = TRUE]
                               ELSE [NoOut EXCEPT
                                       !.files = Len(result["handler"][1].saved),
                                       !.skipped = result["handler"][1].skipped_count])
          \/ \E t \in {"ev1", "ev2"}, removed \in BOOLEAN, reacted \in BOOLEAN :
                PmFinish(t, removed, reacted)]_vars

\* the queue files under the web thread's enqueues and the scheduler's pops,
\* each taken step by step: popped retry items find no channel, popped URLs
\* are downloaded
SpecQueue ==
    /\ InitBot({0}, {<< <<"i", 1>> >>}, {{}})
    /\ [][\/ SchedWake(FALSE)
          \/ \E kind \in {"retry", "api"} : PopRead(kind)
          \/ PopWrite
          \/ SchedRetrySkip("no channel")
          \/ UdDispatch
          \/ \E out \in AllOutcomes : UdResume(out)
          \/ SchedTickEnd
          \/ \E m \in Msgs : EnqueueRead("retry", m)
          \/ \E url \in {<<"pixiv", 1>>, <<"media", 1>>} : EnqueueRead("api_queue", url)
          \/ EnqueueWrite]_vars

\* the live event handler next to the scheduler's drain of the URL queue
SpecBot ==
    /\ InitBot({0}, {<< <<"media", 1>> >>}, {{}})
    /\ [][\/ \E t \in {"ev1", "ev2"}, reacted \in BOOLEAN : OnMessage(t, reacted)
          \/ \E t \in {"ev1", "ev2"} : PmStep(t)
          \/ \E elapsed \in BOOLEAN : SchedWake(elapsed)
          \/ SchedPopRetry
          \/ SchedPopApi
          \/ UdDispatch
          \/ \E out \in AllOutcomes : UdResume(out)
          \/ SchedTickEnd
          \/ QueueUrlDownload(<<"pixiv", 1>>)]_vars

\* ------------------------------------------- properties: bot and scheduler

\* the tick's drain of the URL queue is over: the scheduler sleeps again
DrainOver == sched.pc = "sleep" /\ sched.urls # <<>>

Logged(status, url) ==
    \E k \in DOMAIN dlog : dlog[k].status = status /\ dlog[k].key = url

C27_SchedulerRuns == sched.pc # "dead"

\* the retry items of a message still waiting: in the file, or popped and not
\* yet looked at
Waiting(m) ==
    Cardinality({i \in DOMAIN retry_queue : retry_queue[i] = m})
    + Cardinality({i \in DOMAIN sched.queued :
                      /\ sched.queued[i] = m
                      /\ IF sched.pc = "retry_pm" THEN i > sched.qidx ELSE i >= sched.qidx})

\* C28: popping the retry queue empties it and hands over what it held; each
\* popped item goes through _process_message at most once per queue_retry call
\* that added it; the queue changes only when the scheduler empties it or the
\* /retry endpoint appends to it, so the scheduler never puts an item back.
C28_WorkItemLifecycle ==
    /\ [](\A m \in Msgs : sched.runs[m] + Waiting(m) <= enq[m])
    /\ [][/\ (sched.pc = "pop" /\ sched'.pc # "pop") =>
                retry_queue' = <<>> /\ sched'.queued = retry_queue
          /\ retry_queue' # retry_queue =>
                \/ sched.pc = "pop" /\ retry_queue' = <<>>
                \/ /\ web'.op = "retry" /\ web'.nreq = web.nreq + 1
                   /\ \E m \in Msgs : /\ retry_queue' = Append(retry_queue, m)
                                      /\ enq' = [enq EXCEPT ![m] = @ + 1]
          /\ (\E m \in Msgs : sched'.runs[m] # sched.runs[m]) =>
                /\ sched.pc = "retry"
                /\ pm'["sched"].pc \in {"loop", "raised"}
                /\ sched'.runs = [sched.runs EXCEPT ![sched.queued[sched.qidx]] = @ + 1]]_vars

C28_Witness ==
    /\ enq[1] = 2
    /\ sched.runs[1] = 2
    /\ retry_queue = <<>>
    /\ sched.pc = "sleep"

Awaiting(t) ==
    IF t = "sched" THEN sched.pc = "api_await" \/ pm[t].pc = "await" ELSE pm[t].pc = "await"

\* C29: while a call of get_thread, download_all, download_user_media or
\* download_direct made for a message or for a queued URL is in progress, the
\* event loop's thread is free, so a message that arrives meanwhile is taken
\* and its processing starts.
C29_NonBlocking ==
    \A t \in Tasks : Awaiting(t) =>
        /\ loop = "free"
        /\ \A e \in {"ev1", "ev2"} : pm[e].pc = "idle" => ENABLED OnMessage(e, TRUE)

C29_Witness ==
    /\ pm["ev1"].pc = "await" /\ pm["ev1"].fn = "download_user_media"
    /\ pm["ev2"].pc = "await" /\ pm["ev2"].fn = "download_all"
    /\ sched.pc = "api_await" /\ sched.fn = "download_direct"

\* C30: when get_thread hands back no tweet URL, _process_message and
\* _download_url_direct call download_all not at all for that URL and note no
\* error for it: no entry in errors, no failure entry in the log.
C30_EmptyThread ==
    /\ \A t \in Tasks : pm[t].fn = "download_all" => pm[t].thread > 0
    /\ sched.fn = "download_all" => sched.thread > 0
    /\ \A t \in Tasks :
          /\ \A i \in DOMAIN pm[t].seen :
                pm[t].seen[i].empty => ~pm[t].seen[i].fetch /\ ~pm[t].seen[i].error
          /\ Len(pm[t].errors) = Cardinality({i \in DOMAIN pm[t].seen : pm[t].seen[i].error})
    /\ \A i \in DOMAIN sched.handled :
          sched.handled[i].empty =>
              ~sched.handled[i].fetch /\ sched.handled[i].entry # "failure"

C30_Witness ==
    /\ pm["sched"].pc = "done"
    /\ \E i \in DOMAIN pm["sched"].seen : pm["sched"].seen[i].empty
    /\ pm["sched"].errors = <<>>
    /\ _REACTION_OK \in reactions[pm["sched"].msg]
    /\ \E i \in DOMAIN sched.handled : sched.handled[i].empty

\* the number of files the URLs of one run reported as saved
RECURSIVE SavedCount(_)
SavedCount(seen) ==
    IF seen = <<>> THEN 0 ELSE seen[1].files + SavedCount(Tail(seen))

\* the outcome the URLs of the run of task t call for: error when a URL
\* produced an error, else skipped when no file was saved and a status URL had
\* its whole thread skipped, else OK
Expected(t) ==
    LET seen == pm[t].seen IN
    IF \E i \in DOMAIN seen : seen[i].error THEN _REACTION_ERROR
    ELSE IF SavedCount(seen) = 0 /\ \E i \in DOMAIN seen : seen[i].dup
         THEN _REACTION_SKIPPED ELSE _REACTION_OK

ExpectedEntry(t) ==
    IF Expected(t) = _REACTION_ERROR THEN MessageEntry("failure", pm[t].msg, 0)
    ELSE IF Expected(t) = _REACTION_SKIPPED THEN MessageEntry("success", pm[t].msg, 0)
    ELSE MessageEntry("success", pm[t].msg, SavedCount(pm[t].seen))

ScanLeftOut ==
    IF sched.pc = "dead" THEN Tail(sched.scan)
    ELSE IF sched.pc \in {"scan", "scan_pm"} THEN <<>>
    ELSE sched.scan

\* C34: a scan processes every message with media URLs that carries neither the
\* OK nor the skipped marker (a message left with the error marker among them),
\* and no message that carries one of the two.
C34_ScanEligibility ==
    /\ ScanLeftOut = <<>>
    /\ sched.pc = "scan" =>
          \A i \in DOMAIN sched.scan :
              reactions[sched.scan[i]] \cap {_REACTION_OK, _REACTION_SKIPPED} = {}

\* C35: a Pixiv or Imgur URL whose download wrote no file is noted as an error
\* of the message, which then ends with the error marker and not as a success.
C35_NoFileIsFailure ==
    \A t \in Tasks :
        \A i \in DOMAIN pm[t].seen :
            pm[t].seen[i].nofile =>
                /\ pm[t].seen[i].error
                /\ pm[t].pc = "done" => _REACTION_ERROR \in reactions[pm[t].msg]

\* how often x occurs in the sequence s
Occurrences(s, x) == Cardinality({i \in DOMAIN s : s[i] = x})

\* C36: neither queue file ever holds a key twice (a message for the retry
\* queue, a URL for the API queue), and an enqueue of a key that is in the file
\* leaves both files as they are.
C36_QueueDedup ==
    /\ [](/\ \A m \in Msgs : Occurrences(retry_queue, m) <= 1
          /\ \A url \in BotUrls : Occurrences(api_queue, url) <= 1)
    /\ [][(/\ web.pc = "locked" /\ web'.pc = "idle"
           /\ web.key \in Range(IF web.op = "retry" THEN retry_queue ELSE api_queue))
          => UNCHANGED <<retry_queue, api_queue>>]_vars

C36_Witness ==
    /\ web.pc = "idle" /\ web.nreq = 2 /\ web.op = "retry"
    /\ retry_queue = <<1>> /\ enq[1] = 1 /\ enq[2] = 0
    /\ api_queue = <<>> /\ web.put = <<>>
    /\ sched.taken.retry = <<>>
    /\ sched.pc = "pop"

\* C37: a pop hands over all that the file holds and leaves it empty with no
\* enqueue in between, under every interleaving of the web thread and the
\* scheduler: every key that was appended is in the file or was returned by
\* exactly one pop, none is lost and none returned twice.
C37_AtomicDrain ==
    /\ \A m \in Msgs :
          enq[m] = Occurrences(retry_queue, m) + Occurrences(sched.taken.retry, m)
    /\ \A url \in BotUrls :
          Occurrences(web.put, url)
              = Occurrences(api_queue, url) + Occurrences(sched.taken.api, url)
    /\ sched.pc = "pop_locked" => sched.queued = retry_queue
    /\ sched.pc = "api_locked" => sched.urls = api_queue
    /\ web.pc = "locked" =>
          web.local = IF web.op = "retry" THEN retry_queue ELSE api_queue

C37_Witness ==
    /\ sched.taken.retry = <<1>>
    /\ retry_queue = <<1>>
    /\ enq[1] = 2
    /\ lock = "free"
    /\ sched.pc = "pop"

\* the ids client c was sent or will be sent: its snapshot event, its update
\* events and the batches waiting in its queue
Delivered(c) ==
    Range(sse[c].snapshot)
        \cup UNION {Range(sse[c].yielded[i]) : i \in DOMAIN sse[c].yielded}
        \cup UNION {Range(queues[c][i]) : i \in DOMAIN queues[c]}

\* C39: a client of /api/history/stream that was sent its snapshot and is
\* subscribed gets every id of the ledger, in the snapshot or in an update:
\* once no mark_downloaded call is under way, no id of the file is missing
\* from what it was sent or has waiting, an id marked between the snapshot
\* read and subscribe() included.
C39_StreamComplete ==
    \A c \in Clients :
        (/\ sse[c].snapped /\ sse[c].pc = "sub" /\ c \in subscribers
         /\ \A t \in Markers : mk[t].pc \in {"idle", "returned", "raised"})
        => Range(_read_id_list(ids_file)) \subseteq Delivered(c)

\* C38: a message that _process_message ended with the OK marker is archived:
\* for every status URL of the message the start tweet and every tweet of the
\* thread get_thread resolved for it has its id in the ledger.
C38_OkIsArchived ==
    \A t \in {"ev1", "ev2"} :
        (pm[t].pc = "done" /\ _REACTION_OK \in reactions[pm[t].msg]) =>
            \A i \in DOMAIN pm[t].urls :
                KindOf(pm[t].urls[i]) = "status" =>
                    /\ _extract_tweet_id(pm[t].urls[i]) \in ledger
                    /\ th.start_url = pm[t].urls[i] =>
                          \A j \in DOMAIN th.tweet_urls :
                              _extract_tweet_id(th.tweet_urls[j]) \in ledger

====
